---------------------------- MODULE Spec2Model ----------------------------
(***************************************************************************)
(* A model of the SecurityTrails harvester (src/sx25.py): the task         *)
(* partitioner, pagination discovery, the worker loop with its inner page  *)
(* pool, the result aggregator with its append-only output file, and the   *)
(* SIGINT / atexit shutdown path.                                          *)
(***************************************************************************)
EXTENDS Integers, Sequences, FiniteSets, TLC

(***************************************************************************)
(* Bounds of the model.                                                    *)
(***************************************************************************)
NumHosts == 2
MaxResources == 2
MaxTerms == 2
MaxDistResources == 3
MaxDistWorkers == 3
MaxPages == 2
ScenarioPages == 3
MaxInitLines == 1
MaxWriteErrors == 1
MaxSaveIntervals == 1
NumCreds == 2
MaxFetchCalls == 3
MaxReloads == 2
MaxPoolPages == 4
MaxPoolThreads == 2
MaxCidrs == 2
MaxBlocks == 2
HealthyDomains == 3
HealthyThreads == 3
HealthyTotal == 2
NumAgents == 2
TickSeconds == 300
MaxTime == 1800
MaxArchived == 2
MaxArchiveAttempts == 2

(***************************************************************************)
(* Program constants.                                                      *)
(***************************************************************************)
ProviderMaxPages == 100
first_page_max_retries == 10
fetch_max_retries == 5
cookie_reload_interval == 600
memory_clear_interval == 600
user_agent_change_interval == 600
COOKIE_REFRESH_MINUTES == 10

Hosts == 1..NumHosts
None == 0
\* last_loaded of a CookieManager that has not loaded yet
NoTime == -1

(***************************************************************************)
(* Strings that name hostnames.  A raw string is a hostname index (0: the  *)
(* empty string) with or without surrounding white space; str.strip()      *)
(* removes the white space.  A stripped, non-empty string is identified    *)
(* with its hostname index.                                                *)
(***************************************************************************)
RawStr == [name : 0..NumHosts, pad : BOOLEAN]
Plain(h) == [name |-> h, pad |-> FALSE]
Padded(h) == [name |-> h, pad |-> TRUE]
strip(s) == Plain(s.name)
Truthy(s) == s # Plain(0)

(***************************************************************************)
(* The task partitioner.                                                   *)
(***************************************************************************)
RECURSIVE CrossTerms(_, _)
CrossTerms(resource, terms) ==
    IF terms = << >> THEN << >>
    ELSE << <<resource, Head(terms)>> >> \o CrossTerms(resource, Tail(terms))

RECURSIVE work_items(_, _)
work_items(res, terms) ==
    IF res = << >> THEN << >>
    ELSE (IF terms # << >> THEN CrossTerms(Head(res), terms)
                           ELSE << <<Head(res), None>> >>)
         \o work_items(Tail(res), terms)

SliceIndexNext(i, W) == (i + 1) % W
SliceIndex(i, W) == i % W

RECURSIVE Deal(_, _, _, _)
Deal(items, i, W, wt) ==
    IF i >= Len(items) THEN wt
    ELSE Deal(items, i + 1, W,
              [wt EXCEPT ![SliceIndex(i, W) + 1] = Append(@, items[i + 1])])

distribute_resources_to_workers(res, terms, W) ==
    IF res = << >> THEN << >>
    ELSE Deal(work_items(res, terms), 0, W, [j \in 1..W |-> << >>])

(***************************************************************************)
(* Provider responses.  A response body has the two branches               *)
(* pageProps.apexDomainData and pageProps.serverResponse; a branch is      *)
(* there when the key and its 'data' are.  total_pages = NoKey stands for  *)
(* a meta without the key; records is absent, null or a list of raw        *)
(* hostname strings.                                                       *)
(***************************************************************************)
NoKey == -1
RecAbsent == [kind |-> "absent", items |-> << >>]
RecNull == [kind |-> "null", items |-> << >>]
RecList(s) == [kind |-> "list", items |-> s]
NoBranch == [data |-> FALSE, meta |-> FALSE, total_pages |-> NoKey,
             limit_reached |-> FALSE, records |-> RecAbsent]
MkBranch(tp, lim, recs) ==
    [data |-> TRUE, meta |-> TRUE, total_pages |-> tp, limit_reached |-> lim,
     records |-> recs]
MkBranchNoMeta(recs) ==
    [data |-> TRUE, meta |-> FALSE, total_pages |-> NoKey, limit_reached |-> FALSE,
     records |-> recs]
MkResponse(a, s) == [apex |-> a, server |-> s]

RECURSIVE hostnames_of(_)
hostnames_of(items) ==
    IF items = << >> THEN << >>
    ELSE (IF Truthy(Head(items)) /\ Truthy(strip(Head(items)))
             THEN << strip(Head(items)).name >> ELSE << >>)
         \o hostnames_of(Tail(items))

\* The result of a call that may raise: ok = FALSE stands for the exception.
Ret(v) == [ok |-> TRUE, val |-> v]
Raise == [ok |-> FALSE, val |-> << >>]

branch_records(b) ==
    IF b.records.kind = "absent" THEN Ret(<< >>)
    ELSE IF b.records.kind = "null" THEN Raise
    ELSE Ret(hostnames_of(b.records.items))

extract_domains_from_data(data) ==
    IF data.apex.data THEN branch_records(data.apex)
    ELSE IF data.server.data THEN branch_records(data.server)
    ELSE Ret(<< >>)

get_total_pages_from_dataDefault(data) == ProviderMaxPages

get_total_pages_from_data(data) ==
    IF data.apex.data /\ data.apex.meta /\ data.apex.total_pages # NoKey
        THEN data.apex.total_pages
    ELSE IF data.server.data /\ data.server.meta /\ data.server.total_pages # NoKey
        THEN data.server.total_pages
    ELSE ProviderMaxPages

\* One branch of is_legitimate_100_pages: "yes", "no" (fall through) or "raise"
\* (len(None) is a TypeError).
branch_legitimateLax(b) == IF b.data THEN "yes" ELSE "no"

branch_legitimate(b) ==
    IF ~(b.data /\ b.meta) THEN "no"
    ELSE IF b.limit_reached THEN "yes"
    ELSE IF b.records.kind = "absent" THEN "no"
    ELSE IF b.records.kind = "null" THEN "raise"
    ELSE IF Len(b.records.items) > 0 THEN "yes" ELSE "no"

is_legitimate_100_pages(data) ==
    LET a == branch_legitimate(data.apex)
        s == branch_legitimate(data.server)
    IN  IF a = "yes" THEN "yes"
        ELSE IF a = "raise" THEN "raise"
        ELSE s


(***************************************************************************)
(* Configurations of a run.                                                *)
(***************************************************************************)
WorkerCounts == {1, 2}
ThreadCounts == {1}
AllWorkers == {n - 1 : n \in WorkerCounts}

VARIABLES
    resources,          \* the resource list
    search_terms,       \* the search-term list
    worker_count,       \* W
    thread_count,       \* thread_count_per_worker, T
    worker_tasks,       \* the slices, once distributed
    dist_called,        \* distribute_resources_to_workers has returned
    current_domains,    \* collected
    saved_domains,      \* persisted
    file,               \* the lines of <output_filename>.txt
    results_lock,       \* "free", or the thread that holds it: "main", "worker"
    save_due,           \* time.time() - last_save_time >= save_interval
    mpc,                \* where main() is
    mfl,                \* main()'s save_current_results call: "none", "lock", "write"
    hfl,                \* signal_handler: "none", "lock", "write", "exit"
    wpc,                \* where each worker_process is
    wfl,                \* a worker's save_current_results call
    ti,                 \* index (from 1) of the worker's current task
    attempt,            \* get_first_page_with_retry's loop variable
    first_page_data,    \* what get_first_page_with_retry returned
    total_pages,
    batch,              \* the domains the worker is about to absorb
    pages_queued,       \* pages submitted to the inner pool, not started
    pages_running,      \* pages a page thread is fetching
    page_results,       \* finished futures as_completed has not yielded yet
    worker_domains,
    successful_tasks,
    failed_tasks,
    archive,            \* the save_failed_response calls, in order
    mode,               \* how the provider answers discovery: "run", "free", "scenario"
    disc_script,        \* the provider's answers to come for a worker's discovery
    interrupted,        \* SIGINT was delivered
    sigsnap,            \* current_domains when SIGINT was delivered
    handler_write_failed,  \* the handler's flush met a write error
    absorbed,           \* union of the batches handed to the aggregator
    dirty,              \* a batch was absorbed since the last successful flush
    attempted,          \* the task indices each worker began, in order
    init_len,           \* the number of lines the output file had at start-up
    write_errors,       \* the write errors met so far
    ticks,              \* the save intervals that have elapsed so far
    requested,          \* the pages requested for the worker's current task
    current_cookies,    \* the process-wide session: a credential, or None
    last_cookie_reload_time,  \* when reload_cookies last succeeded, counted in reloads
    validated,          \* the credentials validate_session has accepted
    reloaded,           \* some reload_cookies call has succeeded
    reload_fails,       \* the reload_cookies calls that failed in a row (2: two or more)
    page_cookies,       \* the cookies a task's page fetches are called with
    f_pc,               \* a get_securitytrails_data call: "idle", "request", "returned"
    f_page,             \* the page it fetches
    f_attempt,          \* its loop variable
    cookies_dict,       \* its local credential
    f_result,           \* what it returned
    f_trace,            \* what it did, in order: requests, sleeps, reloads
    scraped,            \* per worker: the pages scrape_page was called for in the task, in order
    slept,              \* per worker: the waits of its get_first_page_with_retry call, in seconds
    scan_pc,            \* a CIDR scanner's main(): "off", "scan", "done", "interrupted"
    cidrs_left,         \* the big CIDRs it has not finished, the current one included
    subnets,            \* the blocks of the current CIDR whose future was not yielded yet
    all_domains,        \* its local set of hostnames
    out_file,           \* its output file
    now,                \* time.time(), in seconds since the program was loaded
    last_memory_clear_time,
    last_user_agent_change_time,
    current_user_agent, \* the identity: a user agent, or None
    cookie_manager,     \* sxip2.py's CookieManager: its cookies and last_loaded
    block_cookies,      \* the cookies request_block has posted with so far
    cookies             \* the local credential of a get_first_page_with_retry call

cfgvars == <<resources, search_terms, worker_count, thread_count, worker_tasks,
             dist_called, mode>>
aggvars == <<current_domains, saved_domains, file, results_lock, save_due>>
mainvars == <<mpc, mfl, hfl, interrupted, sigsnap, handler_write_failed>>
workvars == <<wpc, wfl, ti, attempt, first_page_data, total_pages, batch,
              worker_domains, successful_tasks, failed_tasks, disc_script>>
poolvars == <<pages_queued, pages_running, page_results>>
ghostvars == <<absorbed, dirty, attempted, requested, init_len, ticks,
               write_errors>>
sessvars == <<current_cookies, last_cookie_reload_time, validated, reloaded, reload_fails,
              page_cookies,
              f_pc, f_page, f_attempt, cookies_dict, f_result, f_trace>>
tracevars == <<scraped, slept, cookies>>
cidrvars == <<scan_pc, cidrs_left, subnets, all_domains, out_file>>
timevars == <<now, last_memory_clear_time, last_user_agent_change_time, current_user_agent>>
cmvars == <<cookie_manager, block_cookies>>
vars == <<cfgvars, aggvars, mainvars, workvars, poolvars, ghostvars, archive, sessvars,
          tracevars, cidrvars, timevars, cmvars>>

(***************************************************************************)
(* What a fetch hands back: a parsed body, or None.                        *)
(***************************************************************************)
NoData == [got |-> FALSE, body |-> MkResponse(NoBranch, NoBranch)]
Data(r) == [got |-> TRUE, body |-> r]

\* The thread a worker_process runs on: main() calls it inline when
\* worker_count == 1, and submits it to a ThreadPoolExecutor otherwise.
Thr(w) == IF worker_count = 1 THEN "main" ELSE "worker"

\* signal_handler runs on the main thread, on top of whatever main was doing:
\* the main thread makes no step of its own until the handler is done.
MainRuns == hfl = "none"
Runs(w) == Thr(w) = "worker" \/ MainRuns

Started == {w \in AllWorkers : wpc[w] # "idle"}
Finished == {"idle", "returned", "crashed", "aborted"}


(***************************************************************************)
(* The result aggregator: save_current_results and the absorb step.        *)
(***************************************************************************)
RECURSIVE Perms(_)
Perms(S) ==
    IF S = {} THEN { << >> }
    ELSE UNION { { <<x>> \o p : p \in Perms(S \ {x}) } : x \in S }

Lines(order) == [i \in 1..Len(order) |-> Plain(order[i])]
LineHosts(f) == {strip(f[i]).name : i \in 1..Len(f)} \ {0}

new_domainsAll == current_domains
new_domainsEvery == Hosts
new_domains == current_domains \ saved_domains

\* The call of save_current_results: "if not current_domains: return", else go
\* for the lock.
FlushEntrySkip == "none"
FlushEntry == IF current_domains = {} THEN "none" ELSE "lock"

AcquireBarge(thr) == results_lock' = thr
\* with results_lock: (blocks until the lock is free)
Acquire(thr) ==
    /\ results_lock = "free"
    /\ results_lock' = thr

\* lines 126-132: saved_domains.update(new_domains) is reached when the with
\* open block has ended without an exception
saved_after_writeAnyway(completed) == saved_domains \cup new_domains
saved_after_write(completed) ==
    IF completed THEN saved_domains \cup new_domains ELSE saved_domains

\* The critical section of save_current_results, to the release of the lock.
\* The file is opened in append mode and new_domains written line by line;
\* when open, a write or the close raises, the lines written so far stay in
\* the file and saved_domains is not updated.
FlushBody ==
    /\ results_lock' = "free"
    /\ UNCHANGED current_domains
    /\ IF new_domains = {}
       THEN /\ UNCHANGED <<file, saved_domains, write_errors>>
            /\ dirty' = FALSE
       ELSE \E order \in Perms(new_domains) :
              \/ /\ file' = file \o Lines(order)
                 /\ saved_domains' = saved_after_write(TRUE)
                 /\ dirty' = FALSE
                 /\ UNCHANGED write_errors
              \/ /\ write_errors < MaxWriteErrors
                 /\ write_errors' = write_errors + 1
                 /\ \E n \in 0..Len(order) :
                      file' = file \o Lines(SubSeq(order, 1, n))
                 /\ saved_domains' = saved_after_write(FALSE)
                 /\ UNCHANGED dirty

\* current_domains.update(domains)
updatedReplace(domains) == domains
updated(domains) == current_domains \cup domains

SeqSet(q) == {q[i] : i \in 1..Len(q)}

\* with results_lock: current_domains.update(batch), to the release of the lock
AbsorbBody(w) ==
    /\ current_domains' = updated(SeqSet(batch[w]))
    /\ results_lock' = "free"
    /\ dirty' = TRUE
    /\ UNCHANGED <<saved_domains, file, write_errors>>

\* initialize_saved_domains: the stripped, non-empty lines of the file; the empty
\* set when the file cannot be read.
file_lines(f) == LineHosts(f)
initialize_saved_domains(readable) == IF readable THEN file_lines(file) ELSE {}

AtExitSkip == mpc' = "exited" /\ mfl' = "none"
\* The interpreter leaves main(): the atexit hook calls save_current_results.
AtExit ==
    /\ mpc' = IF FlushEntry = "none" THEN "exited" ELSE "atexit"
    /\ mfl' = FlushEntry


(***************************************************************************)
(* The provider, as a run sees it.  A discovery outcome is what one        *)
(* iteration of get_first_page_with_retry meets: whether a usable session  *)
(* was there (validate_session, or else reload_cookies, succeeded) and     *)
(* what the page-1 fetch handed back.                                      *)
(***************************************************************************)
Outcome(sess, d) == [session_ok |-> sess, data |-> d]
SessionFailed == Outcome(FALSE, NoData)

RunRecords == {RecList(<< >>), RecList(<<Padded(1), Plain(0)>>)}
RunFirstBodies ==
    {MkResponse(MkBranch(tp, FALSE, r), NoBranch) : tp \in {1, MaxPages}, r \in RunRecords}
    \cup {MkResponse(MkBranch(1, FALSE, RecNull), NoBranch)}
\* A script: the outcomes of the attempts to come; the last one repeats.
RunScripts == {<<Outcome(TRUE, Data(b))>> : b \in RunFirstBodies}

PageOutcomes ==
    {NoData} \cup
    {Data(MkResponse(MkBranch(MaxPages, FALSE, r), NoBranch)) :
        r \in {RecNull, RecList(<< >>), RecList(<<Plain(NumHosts)>>)}}

\* scrape_page, given what its fetch handed back: (page, domains, success), or
\* the exception extract_domains_from_data raised.
scrape_page(page, d) ==
    LET e == extract_domains_from_data(d.body)
        result(domains, success, raised) ==
            [page |-> page, domains |-> domains, success |-> success, raised |-> raised,
             got |-> d.got]
    IN  IF ~d.got THEN result(<< >>, FALSE, FALSE)
        ELSE IF ~e.ok THEN result(<< >>, FALSE, TRUE)
        ELSE IF e.val # << >> THEN result(e.val, TRUE, FALSE)
        ELSE result(<< >>, FALSE, FALSE)

Min(S) == CHOOSE x \in S : \A y \in S : x <= y

\* In the modes "scenario" and "healthy" the credential is valid throughout; in
\* the mode "healthy" every page fetch hands back a body with one hostname.
Scripted == mode \in {"scenario", "healthy"}
HealthyPages ==
    {Data(MkResponse(MkBranch(HealthyTotal, FALSE, RecList(<<Plain(h)>>)), NoBranch)) :
        h \in Hosts}
Fetched == IF mode = "healthy" THEN HealthyPages ELSE PageOutcomes

(***************************************************************************)
(* Sessions.  A credential is a number; None stands for no credential.     *)
(* What one requests.get meets is a reply: a connection error or read      *)
(* timeout, another request exception, or an HTTP response with its        *)
(* status, whether its body parses, and the status/error markers its body  *)
(* carries in pageProps.apexDomainData, .serverResponse and .dnsData.      *)
(***************************************************************************)
Creds == 1..NumCreds
Loadable == {None} \cup Creds

Reply(kind, status, json, a, sv, d) ==
    [kind |-> kind, status |-> status, json |-> json,
     apex_mark |-> a, server_mark |-> sv, dns_mark |-> d]
ConnectionError == Reply("connection", 0, FALSE, "none", "none", "none")
RequestException == Reply("exception", 0, FALSE, "none", "none", "none")
Http(status) == Reply("http", status, FALSE, "none", "none", "none")
Json(a, sv, d) == Reply("http", 200, TRUE, a, sv, d)
GoodReply == Json("none", "none", "none")

Replies ==
    {ConnectionError, RequestException, Http(401), Http(500), Http(200), GoodReply,
     Json("status_401", "none", "none"), Json("session_expired", "none", "none"),
     Json("none", "none", "session_expired"),
     Json("none", "status_401", "none"), Json("none", "session_expired", "none")}
ValidateReplies ==
    {ConnectionError, Http(401), GoodReply, Json("session_expired", "none", "none"),
     Json("none", "session_expired", "none")}

is_session_expired(data) == data.apex_mark # "none" \/ data.dns_mark # "none"

validate_session(reply) ==
    IF reply.kind # "http" THEN FALSE
    ELSE IF reply.status = 401 THEN FALSE
    ELSE IF reply.json /\ is_session_expired(reply) THEN FALSE
    ELSE reply.status = 200

\* reload_cookies, given what load_securitytrails_cookie hands back and what the
\* validation request meets: the new credential, or None
reload_cookiesTrusting(loaded, vreply) == loaded
reload_cookies(loaded, vreply) ==
    IF loaded # None /\ validate_session(vreply) THEN loaded ELSE None

\* main(), lines 1205-1216: go on only with a credential that was loaded and
\* has passed validate_session
startup_okLoaded(loaded, passed) == loaded # None
startup_ok(loaded, passed) == loaded # None /\ passed

\* The globals reload_cookies writes, and what is known of the credentials;
\* stamp is what time.time() returns at line 348.
ReloadGlobalsAt(loaded, vreply, stamp) ==
    LET new == reload_cookies(loaded, vreply)
    IN  /\ current_cookies' = IF new # None THEN new ELSE current_cookies
        /\ last_cookie_reload_time' =
               IF new # None THEN stamp ELSE last_cookie_reload_time
        /\ validated' = IF loaded # None /\ validate_session(vreply)
                        THEN validated \cup {loaded} ELSE validated
        /\ reloaded' = (reloaded \/ new # None)
        /\ reload_fails' = IF new # None THEN 0
                           ELSE IF reload_fails < 2 THEN reload_fails + 1 ELSE 2

\* Where the clock is not modelled, every successful reload is stamped with
\* the next instant.
ReloadGlobals(loaded, vreply) ==
    ReloadGlobalsAt(loaded, vreply, last_cookie_reload_time + 1)

(***************************************************************************)
(* main()                                                                  *)
(***************************************************************************)
\* lines 1190-1191: initialize_saved_domains()
MainBoot ==
    /\ MainRuns /\ mpc = "boot"
    /\ \E readable \in (IF file = << >> THEN {TRUE} ELSE BOOLEAN) :
          saved_domains' = initialize_saved_domains(readable)
    /\ mpc' = "session"
    /\ UNCHANGED <<cfgvars, current_domains, file, results_lock, save_due, mfl, hfl,
                   interrupted, sigsnap, handler_write_failed, workvars, poolvars,
                   ghostvars, archive, sessvars, tracevars, cidrvars, timevars, cmvars>>

\* lines 1205-1223: load and validate the cookie (sys.exit(1) when that fails),
\* distribute the tasks, and start the workers that have a task.
MainSession ==
    /\ MainRuns /\ mpc = "session"
    /\ \E loaded \in (IF Scripted THEN {1} ELSE {None, 1}),
          vreply \in (IF Scripted THEN {GoodReply} ELSE ValidateReplies) :
          LET passed == loaded # None /\ validate_session(vreply)
          IN  /\ current_cookies' = IF loaded # None THEN loaded ELSE current_cookies
              /\ validated' = IF passed THEN validated \cup {loaded} ELSE validated
              /\ IF startup_ok(loaded, passed)
                 THEN /\ worker_tasks' = distribute_resources_to_workers(resources, search_terms,
                                                                         worker_count)
                      /\ dist_called' = TRUE
                      /\ mpc' = "run"
                      /\ wpc' = [w \in AllWorkers |->
                                   IF w < worker_count /\ worker_tasks'[w + 1] # << >>
                                   THEN "start" ELSE "idle"]
                      /\ UNCHANGED mfl
                 ELSE /\ AtExit
                      /\ UNCHANGED <<worker_tasks, dist_called, wpc>>
    /\ UNCHANGED <<resources, search_terms, worker_count, thread_count, mode, aggvars, hfl,
                   interrupted, sigsnap, handler_write_failed, wfl, ti, attempt,
                   first_page_data, total_pages, batch, worker_domains, successful_tasks,
                   failed_tasks, disc_script, poolvars, ghostvars, archive,
                   last_cookie_reload_time, reloaded, reload_fails, page_cookies,
                   f_pc, f_page, f_attempt, cookies_dict, f_result, f_trace, tracevars,
                   cidrvars, timevars, cmvars>>

\* lines 1244-1309: every worker is back.  With one worker an exception of
\* worker_process is main()'s own; with several, future.result() is in a try.
\* The final save is made only when some worker returned domains.
MainJoin ==
    /\ MainRuns /\ mpc = "run"
    /\ Started # {}
    /\ \A w \in Started : wpc[w] \in {"returned", "crashed"}
    /\ LET all_worker_domains ==
               UNION {worker_domains[w] : w \in {x \in Started : wpc[x] = "returned"}}
       IN  IF (worker_count = 1 /\ \E w \in Started : wpc[w] = "crashed")
              \/ all_worker_domains = {} \/ FlushEntry = "none"
           THEN AtExit
           ELSE mpc' = "final" /\ mfl' = "lock"
    /\ UNCHANGED <<cfgvars, aggvars, hfl, interrupted, sigsnap, handler_write_failed,
                   workvars, poolvars, ghostvars, archive, sessvars, tracevars, cidrvars, timevars, cmvars>>

MainFlushAcquire ==
    /\ MainRuns /\ mpc \in {"final", "atexit"} /\ mfl = "lock"
    /\ Acquire("main")
    /\ mfl' = "write"
    /\ UNCHANGED <<cfgvars, current_domains, saved_domains, file, save_due, mpc, hfl,
                   interrupted, sigsnap, handler_write_failed, workvars, poolvars,
                   ghostvars, archive, sessvars, tracevars, cidrvars, timevars, cmvars>>

MainFlushWrite ==
    /\ MainRuns /\ mpc \in {"final", "atexit"} /\ mfl = "write"
    /\ FlushBody
    /\ IF mpc = "final" THEN AtExit ELSE (mpc' = "exited" /\ mfl' = "none")
    /\ UNCHANGED <<cfgvars, save_due, hfl, interrupted, sigsnap, handler_write_failed,
                   workvars, poolvars, absorbed, attempted, requested, init_len, ticks, archive, sessvars, tracevars, cidrvars, timevars, cmvars>>

\* A SystemExit raised in the main thread while it waits in a
\* "with ThreadPoolExecutor" block: the block's exit joins the pool first.
MainUnwound ==
    /\ MainRuns /\ mpc = "unwind"
    /\ \A w \in Started : wpc[w] \in Finished
    /\ AtExit
    /\ UNCHANGED <<cfgvars, aggvars, hfl, interrupted, sigsnap, handler_write_failed,
                   workvars, poolvars, ghostvars, archive, sessvars, tracevars, cidrvars, timevars, cmvars>>

(***************************************************************************)
(* signal_handler                                                          *)
(***************************************************************************)
Interrupt ==
    /\ ~interrupted /\ mpc # "exited"
    /\ interrupted' = TRUE
    /\ sigsnap' = current_domains
    /\ hfl' = IF FlushEntry = "none" THEN "exit" ELSE "lock"
    /\ UNCHANGED <<cfgvars, aggvars, mpc, mfl, handler_write_failed, workvars, poolvars,
                   ghostvars, archive, sessvars, tracevars, cidrvars, timevars, cmvars>>

HandlerAcquire ==
    /\ hfl = "lock"
    /\ Acquire("handler")
    /\ hfl' = "write"
    /\ UNCHANGED <<cfgvars, current_domains, saved_domains, file, save_due, mpc, mfl,
                   interrupted, sigsnap, handler_write_failed, workvars, poolvars,
                   ghostvars, archive, sessvars, tracevars, cidrvars, timevars, cmvars>>

HandlerWrite ==
    /\ hfl = "write"
    /\ FlushBody
    /\ hfl' = "exit"
    /\ handler_write_failed' = (write_errors' # write_errors)
    /\ UNCHANGED <<cfgvars, save_due, mpc, mfl, interrupted, sigsnap, workvars, poolvars,
                   absorbed, attempted, requested, init_len, ticks, archive, sessvars, tracevars, cidrvars, timevars, cmvars>>

\* sys.exit(0): SystemExit is raised where the main thread was interrupted.
\* validate_session catches it (a bare except) and returns False; a with
\* block it passes releases its lock or joins its pool; at the top it ends
\* main().
Unlocked == IF results_lock = "main" THEN "free" ELSE results_lock

HandlerExit ==
    /\ hfl = "exit"
    /\ hfl' = "none"
    /\ CASE mpc \in {"boot", "session"} ->
                AtExit /\ UNCHANGED <<wpc, wfl, results_lock>>
         [] mpc = "final" ->
                AtExit /\ results_lock' = Unlocked /\ UNCHANGED <<wpc, wfl>>
         [] mpc = "atexit" ->
                /\ mpc' = "exited" /\ mfl' = "none" /\ results_lock' = Unlocked
                /\ UNCHANGED <<wpc, wfl>>
         [] mpc = "run" /\ (worker_count > 1 \/ wpc[0] \in Finished) ->
                mpc' = "unwind" /\ UNCHANGED <<mfl, wpc, wfl, results_lock>>
         [] mpc = "run" /\ worker_count = 1 /\ wpc[0] \notin Finished ->
                \E swallowed \in (IF wpc[0] \in {"validate", "discover"}
                                  THEN BOOLEAN ELSE {FALSE}) :
                    IF swallowed
                    THEN UNCHANGED <<mpc, mfl, wpc, wfl, results_lock>>
                    ELSE /\ mpc' = "unwind"
                         /\ wpc' = [wpc EXCEPT ![0] = "abort"]
                         /\ wfl' = [wfl EXCEPT ![0] = "none"]
                         /\ results_lock' = Unlocked
                         /\ UNCHANGED mfl
         [] OTHER -> UNCHANGED <<mpc, mfl, wpc, wfl, results_lock>>
    /\ UNCHANGED <<cfgvars, current_domains, saved_domains, file, save_due, interrupted,
                   sigsnap, handler_write_failed, ti, attempt, first_page_data,
                   total_pages, batch, worker_domains, successful_tasks, failed_tasks,
                   disc_script, poolvars, ghostvars, archive, sessvars, tracevars, cidrvars, timevars, cmvars>>


(***************************************************************************)
(* worker_process                                                          *)
(***************************************************************************)
Tasks(w) == IF w + 1 \in DOMAIN worker_tasks THEN worker_tasks[w + 1] ELSE << >>

\* line 718: the next iteration of "for i, (resource, search_term) in enumerate(tasks, 1)",
\* up to the call of validate_session (the maintenance check changes nothing here)
TaskBegin(w) ==
    /\ Runs(w) /\ wpc[w] = "start" /\ ti[w] <= Len(Tasks(w))
    /\ wpc' = [wpc EXCEPT ![w] = "validate"]
    /\ attempted' = [attempted EXCEPT ![w] = Append(@, ti[w])]
    /\ requested' = [requested EXCEPT ![w] = {}]
    /\ scraped' = [scraped EXCEPT ![w] = << >>]
    /\ slept' = [slept EXCEPT ![w] = << >>]
    /\ first_page_data' = [first_page_data EXCEPT ![w] = NoData]
    /\ total_pages' = [total_pages EXCEPT ![w] = 0]
    /\ UNCHANGED <<cfgvars, aggvars, mainvars, wfl, ti, attempt, batch, worker_domains,
                   successful_tasks, failed_tasks, disc_script, poolvars, absorbed, dirty, init_len, ticks, write_errors, archive, sessvars, cookies, cidrvars, timevars, cmvars>>

\* lines 821-832: the loop is over
WorkerReturn(w) ==
    /\ Runs(w) /\ wpc[w] = "start" /\ ti[w] > Len(Tasks(w))
    /\ wpc' = [wpc EXCEPT ![w] = "returned"]
    /\ UNCHANGED <<cfgvars, aggvars, mainvars, wfl, ti, attempt, first_page_data,
                   total_pages, batch, worker_domains, successful_tasks, failed_tasks,
                   disc_script, poolvars, ghostvars, archive, sessvars, tracevars, cidrvars, timevars, cmvars>>

\* lines 745-755: validate_session, reload_cookies when it fails; with no valid
\* session the task is skipped
TaskValidate(w) ==
    /\ Runs(w) /\ wpc[w] = "validate"
    /\ \E ok \in (IF Scripted THEN {TRUE} ELSE BOOLEAN) :
          IF ok
          THEN /\ wpc' = [wpc EXCEPT ![w] = "discover"]
               /\ attempt' = [attempt EXCEPT ![w] = 0]
               /\ IF mode = "run"
                  THEN \E sc \in RunScripts : disc_script' = [disc_script EXCEPT ![w] = sc]
                  ELSE UNCHANGED disc_script
               /\ UNCHANGED <<failed_tasks, ti>>
          ELSE /\ failed_tasks' = [failed_tasks EXCEPT ![w] = @ + 1]
               /\ ti' = [ti EXCEPT ![w] = @ + 1]
               /\ wpc' = [wpc EXCEPT ![w] = "start"]
               /\ UNCHANGED <<attempt, disc_script>>
    /\ UNCHANGED <<cfgvars, aggvars, mainvars, wfl, first_page_data, total_pages, batch,
                   worker_domains, successful_tasks, poolvars, ghostvars, archive, sessvars, tracevars, cidrvars, timevars, cmvars>>

Resource(w) == Tasks(w)[ti[w]][1]
ArchiveEntry(w, error_type) ==
    [resource |-> Resource(w), attempt |-> attempt[w] + 1, error_type |-> error_type]

\* line 783: page_args, one entry for each page in range(2, total_pages + 1)
page_argsFromFirst(total) == 1..total
page_args(total) == 2..total

\* line 788-817: the with block of the pool ends when every future was yielded
pool_drainedEarly(w) == pages_queued[w] = {}
pool_drained(w) == pages_queued[w] = {} /\ pages_running[w] = {} /\ page_results[w] = {}

\* lines 759-783 once get_first_page_with_retry has returned (data, total):
\* extract the first page's domains; absorb them when there are some, else
\* submit pages 2..total_pages to the inner pool.
AfterDiscovery(w, body, total) ==
    LET e == extract_domains_from_data(body)
    IN  /\ first_page_data' = [first_page_data EXCEPT ![w] = Data(body)]
        /\ total_pages' = [total_pages EXCEPT ![w] = total]
        /\ IF ~e.ok
           THEN /\ wpc' = [wpc EXCEPT ![w] = "crashed"]
                /\ UNCHANGED <<batch, worker_domains, absorbed, pages_queued>>
           ELSE IF e.val # << >>
           THEN /\ wpc' = [wpc EXCEPT ![w] = "lock1"]
                /\ batch' = [batch EXCEPT ![w] = e.val]
                /\ worker_domains' = [worker_domains EXCEPT ![w] = @ \cup SeqSet(e.val)]
                /\ absorbed' = absorbed \cup SeqSet(e.val)
                /\ UNCHANGED pages_queued
           ELSE /\ wpc' = [wpc EXCEPT ![w] = "collect"]
                /\ pages_queued' = [pages_queued EXCEPT ![w] = page_args(total)]
                /\ UNCHANGED <<batch, worker_domains, absorbed>>

\* The outcomes the provider may give the next discovery attempt.
DiscResponses ==
    LET recs == {RecAbsent, RecNull, RecList(<< >>), RecList(<<Plain(1)>>)}
        apex == {NoBranch, MkBranchNoMeta(RecList(<<Plain(1)>>)),
                 MkBranch(NoKey, FALSE, RecList(<<Plain(1)>>))}
                \cup {MkBranch(tp, lim, r) :
                        tp \in {MaxPages, ProviderMaxPages}, lim \in BOOLEAN, r \in recs}
        server == {NoBranch,
                   MkBranch(MaxPages, FALSE, RecList(<<Plain(1)>>)),
                   MkBranch(ProviderMaxPages, FALSE, RecList(<< >>)),
                   MkBranch(ProviderMaxPages, FALSE, RecList(<<Plain(1)>>))}
    IN  {MkResponse(x, y) : x \in apex, y \in server}
\* In mode "free" every attempt may meet any of the bodies, or the one way of
\* failing without a body that disc_script names.
FailureKinds == {SessionFailed, Outcome(TRUE, NoData)}
FreeOutcomes(w) ==
    SeqSet(disc_script[w]) \cup {Outcome(TRUE, Data(r)) : r \in DiscResponses}
Offered(w) == IF mode = "free" THEN FreeOutcomes(w) ELSE {Head(disc_script[w])}

\* line 636: wait_time = 2 * (attempt + 1)
wait_time(att) == 2 * (att + 1)

\* lines 600-638: one iteration of get_first_page_with_retry's loop
DiscAttempt(w) ==
    /\ Runs(w) /\ wpc[w] = "discover" /\ attempt[w] < first_page_max_retries
    /\ \E o \in Offered(w) :
         LET total == get_total_pages_from_data(o.data.body)
             legit == is_legitimate_100_pages(o.data.body)
             back == o.session_ok /\ o.data.got
                     /\ (total # ProviderMaxPages \/ legit = "yes")
             raised == o.session_ok /\ o.data.got
                       /\ total = ProviderMaxPages /\ legit = "raise"
         IN  /\ requested' = [requested EXCEPT ![w] = IF o.session_ok THEN @ \cup {1} ELSE @]
             /\ slept' = [slept EXCEPT ![w] =
                           IF back \/ raised \/ ~o.session_ok THEN @
                           ELSE Append(@, wait_time(attempt[w]))]
             /\ IF back THEN AfterDiscovery(w, o.data.body, total) /\ UNCHANGED <<attempt, archive>>
                ELSE IF raised
                THEN /\ wpc' = [wpc EXCEPT ![w] = "crashed"]
                     /\ UNCHANGED <<attempt, archive, first_page_data, total_pages, batch,
                                    worker_domains, absorbed, pages_queued>>
                ELSE /\ attempt' = [attempt EXCEPT ![w] = @ + 1]
                     /\ archive' =
                          IF ~o.session_ok THEN archive
                          ELSE IF ~o.data.got
                              THEN Append(archive, ArchiveEntry(w, "no_data_received"))
                          ELSE Append(archive, ArchiveEntry(w, "total_pages_detection_failed"))
                     /\ UNCHANGED <<wpc, first_page_data, total_pages, batch, worker_domains,
                                    absorbed, pages_queued>>
    /\ disc_script' = [disc_script EXCEPT ![w] = IF Len(@) > 1 THEN Tail(@) ELSE @]
    /\ UNCHANGED <<cfgvars, aggvars, mainvars, wfl, ti, successful_tasks, failed_tasks,
                   pages_running, page_results, dirty, attempted, init_len, ticks,
                   write_errors, sessvars, scraped, cookies, cidrvars, timevars, cmvars>>

\* lines 640-642 and 761-764: every attempt failed; (None, 100) comes back and
\* the task is counted as failed
DiscExhausted(w) ==
    /\ Runs(w) /\ wpc[w] = "discover" /\ attempt[w] >= first_page_max_retries
    /\ first_page_data' = [first_page_data EXCEPT ![w] = NoData]
    /\ total_pages' = [total_pages EXCEPT ![w] = ProviderMaxPages]
    /\ failed_tasks' = [failed_tasks EXCEPT ![w] = @ + 1]
    /\ ti' = [ti EXCEPT ![w] = @ + 1]
    /\ wpc' = [wpc EXCEPT ![w] = "start"]
    /\ UNCHANGED <<cfgvars, aggvars, mainvars, wfl, attempt, batch, worker_domains,
                   successful_tasks, disc_script, poolvars, ghostvars, archive, sessvars, tracevars, cidrvars, timevars, cmvars>>

\* lines 773 and 800: with results_lock
AbsorbAcquire(w) ==
    /\ Runs(w) /\ wpc[w] \in {"lock1", "lock2"}
    /\ Acquire(Thr(w))
    /\ wpc' = [wpc EXCEPT ![w] = IF @ = "lock1" THEN "upd1" ELSE "upd2"]
    /\ UNCHANGED <<cfgvars, current_domains, saved_domains, file, save_due, mainvars, wfl,
                   ti, attempt, first_page_data, total_pages, batch, worker_domains,
                   successful_tasks, failed_tasks, disc_script, poolvars, ghostvars, archive, sessvars, tracevars, cidrvars, timevars, cmvars>>

\* lines 811-815 after a page's result: when the save interval has passed, call
\* save_current_results and restart the interval
AfterPage(w) ==
    IF save_due /\ FlushEntry' = "lock"
    THEN /\ wpc' = [wpc EXCEPT ![w] = "save"]
         /\ wfl' = [wfl EXCEPT ![w] = "lock"]
         /\ UNCHANGED save_due
    ELSE /\ wpc' = [wpc EXCEPT ![w] = "collect"]
         /\ save_due' = FALSE
         /\ UNCHANGED wfl

\* lines 774 and 801: current_domains.update(...), and what follows: the
\* submission of pages 2..total_pages (line 783-790) after the first page
AbsorbUpdate(w) ==
    /\ Runs(w) /\ wpc[w] \in {"upd1", "upd2"}
    /\ AbsorbBody(w)
    /\ batch' = [batch EXCEPT ![w] = << >>]
    /\ IF wpc[w] = "upd1"
       THEN /\ wpc' = [wpc EXCEPT ![w] = "collect"]
            /\ pages_queued' = [pages_queued EXCEPT ![w] = page_args(total_pages[w])]
            /\ UNCHANGED <<wfl, save_due>>
       ELSE AfterPage(w) /\ UNCHANGED pages_queued
    /\ UNCHANGED <<cfgvars, mainvars, ti, attempt, first_page_data, total_pages,
                   worker_domains, successful_tasks, failed_tasks, disc_script,
                   pages_running, page_results, absorbed, attempted, requested, init_len, ticks,
                   archive, sessvars, tracevars, cidrvars, timevars, cmvars>>


(***************************************************************************)
(* The inner pool of a task: ThreadPoolExecutor(max_workers=T) runs        *)
(* scrape_page on the submitted pages, in submission order, at most T at   *)
(* a time.  The page threads are not the main thread.                      *)
(***************************************************************************)
PageStart(w) ==
    /\ pages_queued[w] # {}
    /\ Cardinality(pages_running[w]) < thread_count
    /\ LET p == Min(pages_queued[w])
       IN  /\ pages_queued' = [pages_queued EXCEPT ![w] = @ \ {p}]
           /\ pages_running' = [pages_running EXCEPT ![w] = @ \cup {p}]
           /\ requested' = [requested EXCEPT ![w] = @ \cup {p}]
           /\ scraped' = [scraped EXCEPT ![w] = Append(@, p)]
    /\ UNCHANGED <<cfgvars, aggvars, mainvars, workvars, page_results, absorbed, dirty, attempted, init_len, ticks, write_errors, archive, sessvars, slept, cookies, cidrvars, timevars, cmvars>>

PageFinish(w) ==
    /\ \E p \in pages_running[w], d \in Fetched :
          /\ pages_running' = [pages_running EXCEPT ![w] = @ \ {p}]
          /\ page_results' = [page_results EXCEPT ![w] = @ \cup {scrape_page(p, d)}]
    /\ UNCHANGED <<cfgvars, aggvars, mainvars, workvars, pages_queued, ghostvars, archive, sessvars, tracevars, cidrvars, timevars, cmvars>>

\* lines 793-809: as_completed yields a finished future; future.result() hands
\* back (page, domains, success) or raises what scrape_page raised
Collect(w) ==
    /\ Runs(w) /\ wpc[w] = "collect"
    /\ \E r \in page_results[w] :
          /\ page_results' = [page_results EXCEPT ![w] = @ \ {r}]
          /\ UNCHANGED <<current_domains, saved_domains, file, results_lock>>
          /\ IF r.raised
             THEN /\ wpc' = [wpc EXCEPT ![w] = "raise"]
                  /\ UNCHANGED <<batch, worker_domains, absorbed, failed_tasks, wfl, save_due>>
             ELSE IF r.success
             THEN /\ wpc' = [wpc EXCEPT ![w] = "lock2"]
                  /\ batch' = [batch EXCEPT ![w] = r.domains]
                  /\ worker_domains' = [worker_domains EXCEPT ![w] = @ \cup SeqSet(r.domains)]
                  /\ absorbed' = absorbed \cup SeqSet(r.domains)
                  /\ UNCHANGED <<failed_tasks, wfl, save_due>>
             ELSE /\ failed_tasks' = [failed_tasks EXCEPT ![w] = @ + 1]
                  /\ AfterPage(w)
                  /\ UNCHANGED <<batch, worker_domains, absorbed>>
    /\ UNCHANGED <<cfgvars, mainvars, ti, attempt, first_page_data, total_pages,
                   successful_tasks, disc_script, pages_queued, pages_running, dirty, attempted, requested, init_len, ticks, write_errors, archive, sessvars, tracevars, cidrvars, timevars, cmvars>>

\* line 817: every future was yielded; the with block ends and the task is done
TaskDone(w) ==
    /\ Runs(w) /\ wpc[w] = "collect"
    /\ pool_drained(w)
    /\ successful_tasks' = [successful_tasks EXCEPT ![w] = @ + 1]
    /\ ti' = [ti EXCEPT ![w] = @ + 1]
    /\ wpc' = [wpc EXCEPT ![w] = "start"]
    /\ UNCHANGED <<cfgvars, aggvars, mainvars, wfl, attempt, first_page_data, total_pages,
                   batch, worker_domains, failed_tasks, disc_script, poolvars, ghostvars,
                   archive, sessvars, tracevars, cidrvars, timevars, cmvars>>

\* line 814: the periodic save_current_results, at its lock
WFlushAcquire(w) ==
    /\ Runs(w) /\ wpc[w] = "save" /\ wfl[w] = "lock"
    /\ Acquire(Thr(w))
    /\ wfl' = [wfl EXCEPT ![w] = "write"]
    /\ UNCHANGED <<cfgvars, current_domains, saved_domains, file, save_due, mainvars, wpc,
                   ti, attempt, first_page_data, total_pages, batch, worker_domains,
                   successful_tasks, failed_tasks, disc_script, poolvars, ghostvars, archive, sessvars, tracevars, cidrvars, timevars, cmvars>>

\* lines 120-141 and 815: the critical section, then last_save_time = current_time
WFlushWrite(w) ==
    /\ Runs(w) /\ wpc[w] = "save" /\ wfl[w] = "write"
    /\ FlushBody
    /\ wfl' = [wfl EXCEPT ![w] = "none"]
    /\ wpc' = [wpc EXCEPT ![w] = "collect"]
    /\ save_due' = FALSE
    /\ UNCHANGED <<cfgvars, mainvars, ti, attempt, first_page_data, total_pages, batch,
                   worker_domains, successful_tasks, failed_tasks, disc_script, poolvars,
                   absorbed, attempted, requested, init_len, ticks, archive, sessvars, tracevars, cidrvars, timevars, cmvars>>

\* An exception on its way out of the "with ThreadPoolExecutor" block: the
\* block's exit waits for the pages still queued or running.
WorkerUnwound(w) ==
    /\ wpc[w] \in {"raise", "abort"}
    /\ pages_queued[w] = {} /\ pages_running[w] = {}
    /\ wpc' = [wpc EXCEPT ![w] = IF @ = "raise" THEN "crashed" ELSE "aborted"]
    /\ page_results' = [page_results EXCEPT ![w] = {}]
    /\ UNCHANGED <<cfgvars, aggvars, mainvars, wfl, ti, attempt, first_page_data,
                   total_pages, batch, worker_domains, successful_tasks, failed_tasks,
                   disc_script, pages_queued, pages_running, ghostvars, archive, sessvars, tracevars, cidrvars, timevars, cmvars>>

\* save_interval seconds have passed since last_save_time
TimePasses ==
    /\ mpc = "run" /\ ~save_due /\ ticks < MaxSaveIntervals
    /\ save_due' = TRUE
    /\ ticks' = ticks + 1
    /\ UNCHANGED <<cfgvars, current_domains, saved_domains, file, results_lock, mainvars,
                   workvars, poolvars, absorbed, dirty, attempted, requested, init_len,
                   write_errors, archive, sessvars, tracevars, cidrvars, timevars, cmvars>>

(***************************************************************************)
(* A run of main().                                                        *)
(***************************************************************************)
InitLines == {Padded(1)}
InitFiles == UNION {[1..n -> InitLines] : n \in 0..MaxInitLines}

WorkerLocals ==
    /\ wfl = [w \in AllWorkers |-> "none"]
    /\ ti = [w \in AllWorkers |-> 1]
    /\ attempt = [w \in AllWorkers |-> 0]
    /\ first_page_data = [w \in AllWorkers |-> NoData]
    /\ total_pages = [w \in AllWorkers |-> 0]
    /\ batch = [w \in AllWorkers |-> << >>]
    /\ pages_queued = [w \in AllWorkers |-> {}]
    /\ pages_running = [w \in AllWorkers |-> {}]
    /\ page_results = [w \in AllWorkers |-> {}]
    /\ worker_domains = [w \in AllWorkers |-> {}]
    /\ successful_tasks = [w \in AllWorkers |-> 0]
    /\ failed_tasks = [w \in AllWorkers |-> 0]
    /\ requested = [w \in AllWorkers |-> {}]
    /\ archive = << >>

AggInit ==
    /\ current_domains = {}
    /\ saved_domains = {}
    /\ results_lock = "free"
    /\ save_due = FALSE
    /\ mfl = "none"
    /\ hfl = "none"
    /\ interrupted = FALSE
    /\ sigsnap = {}
    /\ handler_write_failed = FALSE
    /\ absorbed = {}
    /\ dirty = TRUE
    /\ write_errors = 0
    /\ ticks = 0

\* The session before main() has loaded a credential, and after its start-up
\* validation has passed for credential 1.
SessInit ==
    /\ current_cookies = None
    /\ last_cookie_reload_time = 0
    /\ validated = {}
    /\ reloaded = FALSE
    /\ reload_fails = 0
    /\ page_cookies = None

SessStarted ==
    /\ current_cookies = 1
    /\ last_cookie_reload_time = 0
    /\ validated = {1}
    /\ reloaded = FALSE
    /\ reload_fails = 0
    /\ page_cookies = 1

NoResult == [got |-> FALSE, body |-> NoBranch, why |-> "none", reply |-> GoodReply]

NoTrace ==
    /\ scraped = [w \in AllWorkers |-> << >>]
    /\ slept = [w \in AllWorkers |-> << >>]

TraceInit ==
    /\ NoTrace
    /\ cookies = None

CidrOff ==
    /\ scan_pc = "off"
    /\ cidrs_left = 0
    /\ subnets = {}
    /\ all_domains = {}
    /\ out_file = << >>

\* The clock stands at the load of the program, when the three timers were
\* set (lines 33-41); an identity has been chosen at the start-up
\* validation.  The runs of the specifications that have no Tick are shorter
\* than the maintenance intervals, so that their timers never expire.
TimersInit ==
    /\ now = 0
    /\ last_memory_clear_time = 0
    /\ last_user_agent_change_time = 0
    /\ current_user_agent = 1

\* CookieManager.__init__, sxip2.py lines 44-48
CookieManagerInit ==
    /\ cookie_manager = [cookies |-> None, last_loaded |-> NoTime]
    /\ block_cookies = {}

FetchIdle ==
    /\ f_pc = "idle"
    /\ f_page = 0
    /\ f_attempt = 0
    /\ cookies_dict = None
    /\ f_result = NoResult
    /\ f_trace = << >>

Init ==
    /\ \E n \in 1..MaxResources : resources = [i \in 1..n |-> i]
    /\ search_terms = << >>
    /\ worker_count \in WorkerCounts
    /\ thread_count \in ThreadCounts
    /\ worker_tasks = << >>
    /\ dist_called = FALSE
    /\ mode = "run"
    /\ file \in InitFiles
    /\ init_len = Len(file)
    /\ mpc = "boot"
    /\ AggInit
    /\ SessInit
    /\ FetchIdle
    /\ TraceInit
    /\ TimersInit
    /\ CookieManagerInit
    /\ CidrOff
    /\ WorkerLocals
    /\ wpc = [w \in AllWorkers |-> "idle"]
    /\ disc_script = [w \in AllWorkers |-> << >>]
    /\ attempted = [w \in AllWorkers |-> << >>]

WorkerStep(w) ==
    \/ TaskBegin(w) \/ WorkerReturn(w) \/ TaskValidate(w)
    \/ DiscAttempt(w)
    \/ AbsorbAcquire(w) \/ AbsorbUpdate(w)
    \/ PageStart(w) \/ PageFinish(w) \/ Collect(w) \/ TaskDone(w)
    \/ WFlushAcquire(w) \/ WFlushWrite(w) \/ WorkerUnwound(w)

Next ==
    \/ MainBoot \/ MainSession \/ MainJoin \/ MainFlushAcquire \/ MainFlushWrite
    \/ MainUnwound
    \/ Interrupt \/ HandlerAcquire \/ HandlerWrite \/ HandlerExit
    \/ TimePasses
    \/ \E w \in AllWorkers : WorkerStep(w)

Spec == Init /\ [][Next]_vars


(***************************************************************************)
(* The partitioner on its own: distribute_resources_to_workers applied to  *)
(* every resource list, search-term list and worker count within the       *)
(* bounds.                                                                 *)
(***************************************************************************)
DistValues == {1, 2}
DistLists(n) == UNION {[1..k -> DistValues] : k \in 0..n}

InitDist ==
    /\ resources \in DistLists(MaxDistResources)
    /\ search_terms \in DistLists(MaxTerms)
    /\ worker_count \in 1..MaxDistWorkers
    /\ thread_count = 1
    /\ worker_tasks = << >>
    /\ dist_called = FALSE
    /\ mode = "dist"
    /\ file = << >>
    /\ init_len = 0
    /\ mpc = "dist"
    /\ AggInit
    /\ SessInit
    /\ FetchIdle
    /\ TraceInit
    /\ TimersInit
    /\ CookieManagerInit
    /\ CidrOff
    /\ WorkerLocals
    /\ wpc = [w \in AllWorkers |-> "idle"]
    /\ disc_script = [w \in AllWorkers |-> << >>]
    /\ attempted = [w \in AllWorkers |-> << >>]

Distribute ==
    /\ mpc = "dist" /\ ~dist_called
    /\ worker_tasks' = distribute_resources_to_workers(resources, search_terms, worker_count)
    /\ dist_called' = TRUE
    /\ UNCHANGED <<resources, search_terms, worker_count, thread_count, mode, aggvars,
                   mainvars, workvars, poolvars, ghostvars, archive, sessvars, tracevars, cidrvars, timevars, cmvars>>

NextDist == Distribute

SpecDist == InitDist /\ [][NextDist]_vars

(***************************************************************************)
(* Pagination discovery on its own: one call of get_first_page_with_retry  *)
(* by worker 0, for the first task of a one-task slice, against a provider *)
(* that may answer every attempt with any body.                            *)
(***************************************************************************)
InitDisc ==
    /\ resources = <<1>>
    /\ search_terms = << >>
    /\ worker_count = 1
    /\ thread_count \in ThreadCounts
    /\ worker_tasks = distribute_resources_to_workers(resources, search_terms, worker_count)
    /\ dist_called = TRUE
    /\ mode = "free"
    /\ file = << >>
    /\ init_len = 0
    /\ mpc = "run"
    /\ AggInit
    /\ SessStarted
    /\ FetchIdle
    /\ TraceInit
    /\ TimersInit
    /\ CookieManagerInit
    /\ CidrOff
    /\ WorkerLocals
    /\ wpc = [w \in AllWorkers |-> IF w = 0 THEN "discover" ELSE "idle"]
    /\ \E f \in FailureKinds : disc_script = [w \in AllWorkers |-> <<f>>]
    /\ attempted = [w \in AllWorkers |-> IF w = 0 THEN <<1>> ELSE << >>]

NextDisc == DiscAttempt(0) \/ DiscExhausted(0)

SpecDisc == InitDisc /\ [][NextDisc]_vars

(***************************************************************************)
(* The scenario of a mis-detected page count: one resource; the provider   *)
(* answers the first page-1 fetch with total_pages 100, no limit_reached   *)
(* and no record, and the second with total_pages ScenarioPages and a      *)
(* record; every session validation succeeds.                              *)
(***************************************************************************)
Bad100 == MkResponse(MkBranch(ProviderMaxPages, FALSE, RecList(<< >>)), NoBranch)
GoodFew == MkResponse(MkBranch(ScenarioPages, FALSE, RecList(<<Plain(1)>>)), NoBranch)
ScenarioScript == <<Outcome(TRUE, Data(Bad100)), Outcome(TRUE, Data(GoodFew))>>

InitC10 ==
    /\ resources = <<1>>
    /\ search_terms = << >>
    /\ worker_count \in WorkerCounts
    /\ thread_count \in ThreadCounts
    /\ worker_tasks = << >>
    /\ dist_called = FALSE
    /\ mode = "scenario"
    /\ file \in InitFiles
    /\ init_len = Len(file)
    /\ mpc = "boot"
    /\ AggInit
    /\ SessInit
    /\ FetchIdle
    /\ TraceInit
    /\ TimersInit
    /\ CookieManagerInit
    /\ CidrOff
    /\ WorkerLocals
    /\ wpc = [w \in AllWorkers |-> "idle"]
    /\ disc_script = [w \in AllWorkers |-> ScenarioScript]
    /\ attempted = [w \in AllWorkers |-> << >>]

SpecC10 == InitC10 /\ [][Next]_vars

(***************************************************************************)
(* One task of worker 0 from its discovery to its end, with up to          *)
(* MaxPoolThreads page threads: the provider answers every discovery       *)
(* attempt in the same way, with a total of up to MaxPoolPages pages or     *)
(* with a failure, and every page fetch in any way.                        *)
(***************************************************************************)
PoolFirst ==
    {MkResponse(MkBranch(n, FALSE, r), NoBranch) :
        n \in 1..MaxPoolPages, r \in {RecList(<< >>), RecList(<<Plain(1)>>)}}
PoolScripts == {<<Outcome(TRUE, Data(b))>> : b \in PoolFirst} \cup {<<f>> : f \in FailureKinds}

InitPool ==
    /\ resources = <<1>>
    /\ search_terms = << >>
    /\ worker_count = 1
    /\ thread_count \in 1..MaxPoolThreads
    /\ worker_tasks = distribute_resources_to_workers(resources, search_terms, worker_count)
    /\ dist_called = TRUE
    /\ mode = "pool"
    /\ file = << >>
    /\ init_len = 0
    /\ mpc = "run"
    /\ AggInit
    /\ SessStarted
    /\ FetchIdle
    /\ TraceInit
    /\ TimersInit
    /\ CookieManagerInit
    /\ CidrOff
    /\ WorkerLocals
    /\ wpc = [w \in AllWorkers |-> IF w = 0 THEN "discover" ELSE "idle"]
    /\ \E sc \in PoolScripts : disc_script = [w \in AllWorkers |-> sc]
    /\ attempted = [w \in AllWorkers |-> IF w = 0 THEN <<1>> ELSE << >>]

NextPool ==
    \/ DiscAttempt(0) \/ DiscExhausted(0)
    \/ AbsorbAcquire(0) \/ AbsorbUpdate(0)
    \/ PageStart(0) \/ PageFinish(0) \/ Collect(0) \/ TaskDone(0)
    \/ WorkerUnwound(0) \/ WorkerReturn(0)

SpecPool == InitPool /\ [][NextPool]_vars

(***************************************************************************)
(* The CIDR block scanners, sxip1.py and sxip2.py, whose main() is the     *)
(* same: for each big CIDR the blocks are submitted to a pool and the main *)
(* thread adds the hostnames of every yielded block to all_domains; after  *)
(* the last CIDR the output file is written.  Ctrl-C raises                *)
(* KeyboardInterrupt in the main thread, which nothing catches there.      *)
(***************************************************************************)
Blocks == 1..MaxBlocks
\* request_block's mapping, as the hostnames in it; empty also when it failed
BlockHosts == SUBSET Hosts
sorted(S) == CHOOSE o \in Perms(S) : \A i, j \in DOMAIN o : i < j => o[i] < o[j]

InitCidr ==
    /\ resources = << >>
    /\ search_terms = << >>
    /\ worker_count = 1
    /\ thread_count = 1
    /\ worker_tasks = << >>
    /\ dist_called = FALSE
    /\ mode = "cidr"
    /\ file = << >>
    /\ init_len = 0
    /\ mpc = "off"
    /\ AggInit
    /\ SessInit
    /\ FetchIdle
    /\ TraceInit
    /\ TimersInit
    /\ CookieManagerInit
    /\ WorkerLocals
    /\ wpc = [w \in AllWorkers |-> "idle"]
    /\ disc_script = [w \in AllWorkers |-> << >>]
    /\ attempted = [w \in AllWorkers |-> << >>]
    /\ scan_pc = "scan"
    /\ cidrs_left \in 1..MaxCidrs
    /\ subnets = Blocks
    /\ all_domains = {}
    /\ out_file \in {<< >>, <<Plain(1)>>}

ScanUnchanged ==
    UNCHANGED <<cfgvars, aggvars, mainvars, workvars, poolvars, ghostvars, archive, sessvars,
                tracevars, timevars, cmvars>>

\* for fut in as_completed(futures): the mapping of one block is added
BlockYielded ==
    /\ scan_pc = "scan"
    /\ \E b \in subnets, doms \in BlockHosts :
          /\ subnets' = subnets \ {b}
          /\ all_domains' = all_domains \cup doms
    /\ UNCHANGED <<scan_pc, cidrs_left, out_file>>
    /\ ScanUnchanged

\* for big in cidrs: the next big CIDR
NextCidr ==
    /\ scan_pc = "scan" /\ subnets = {} /\ cidrs_left > 1
    /\ cidrs_left' = cidrs_left - 1
    /\ subnets' = Blocks
    /\ UNCHANGED <<scan_pc, all_domains, out_file>>
    /\ ScanUnchanged

\* with open(out_file, "w"): the sorted hostnames, one on a line
ScanWrite ==
    /\ scan_pc = "scan" /\ subnets = {} /\ cidrs_left = 1
    /\ out_file' = Lines(sorted(all_domains))
    /\ scan_pc' = "done"
    /\ cidrs_left' = 0
    /\ UNCHANGED <<subnets, all_domains>>
    /\ ScanUnchanged

ScanInterrupt ==
    /\ scan_pc = "scan"
    /\ scan_pc' = "interrupted"
    /\ UNCHANGED <<cidrs_left, subnets, all_domains, out_file>>
    /\ ScanUnchanged

NextScan == BlockYielded \/ NextCidr \/ ScanWrite \/ ScanInterrupt

SpecCidr == InitCidr /\ [][NextScan]_vars

(***************************************************************************)
(* The scenario of a healthy run: HealthyDomains resources, no search      *)
(* term, one worker with HealthyThreads page threads, no output file yet;  *)
(* the credential is valid and the provider answers every page-1 fetch     *)
(* with total_pages HealthyTotal and a hostname, and every other page      *)
(* fetch with a hostname.                                                  *)
(***************************************************************************)
HealthyFirst == MkResponse(MkBranch(HealthyTotal, FALSE, RecList(<<Plain(1)>>)), NoBranch)

InitHealthy ==
    /\ resources = [i \in 1..HealthyDomains |-> i]
    /\ search_terms = << >>
    /\ worker_count = 1
    /\ thread_count = HealthyThreads
    /\ worker_tasks = << >>
    /\ dist_called = FALSE
    /\ mode = "healthy"
    /\ file = << >>
    /\ init_len = 0
    /\ mpc = "boot"
    /\ AggInit
    /\ SessInit
    /\ FetchIdle
    /\ TraceInit
    /\ TimersInit
    /\ CookieManagerInit
    /\ CidrOff
    /\ WorkerLocals
    /\ wpc = [w \in AllWorkers |-> "idle"]
    /\ disc_script = [w \in AllWorkers |-> <<Outcome(TRUE, Data(HealthyFirst))>>]
    /\ attempted = [w \in AllWorkers |-> << >>]

SpecHealthy == InitHealthy /\ [][Next]_vars

(***************************************************************************)
(* The page phase of one task with get_securitytrails_data in full: worker *)
(* 0 has discovered 1 + MaxFetchCalls pages and submitted pages 2.. to its *)
(* pool; each page thread calls get_securitytrails_data with the worker's  *)
(* credential (page_args, line 783), and every requests.get may meet any   *)
(* reply.  last_cookie_reload_time counts the successful reloads.          *)
(***************************************************************************)
FetchBody == MkResponse(MkBranch(1 + MaxFetchCalls, FALSE, RecList(<<Plain(NumHosts)>>)), NoBranch)

RequestEv(page, cred) ==
    [ev |-> "request", page |-> page, cred |-> cred, ok |-> TRUE,
     cur |-> current_cookies, after_reload |-> reloaded, fails |-> reload_fails]
SleepEv ==
    [ev |-> "sleep", page |-> 0, cred |-> None, ok |-> TRUE,
     cur |-> None, after_reload |-> FALSE, fails |-> 0]
ReloadEv(loaded, ok) ==
    [ev |-> "reload", page |-> 0, cred |-> loaded, ok |-> ok,
     cur |-> None, after_reload |-> FALSE, fails |-> 0]

Failure(why, reply) == [got |-> FALSE, body |-> NoBranch, why |-> why, reply |-> reply]
Success(reply) == [got |-> TRUE, body |-> FetchBody, why |-> "data", reply |-> reply]

\* lines 482-489: a connection error or read timeout is retried while
\* attempt < max_retries - 1
retry_transportAlways(att) == TRUE
retry_transport(att) == att < fetch_max_retries - 1

\* lines 441 and 457: the response tells that the session is over
auth_failureMalformed(reply) ==
    /\ reply.kind = "http"
    /\ \/ reply.status = 401
       \/ reply.status = 200 /\ (~reply.json \/ is_session_expired(reply))
auth_failure(reply) ==
    /\ reply.kind = "http"
    /\ \/ reply.status = 401
       \/ reply.status = 200 /\ reply.json /\ is_session_expired(reply)

\* scrape_page (line 652) calls get_securitytrails_data, line 358-427
FetchBegin ==
    /\ f_pc = "idle"
    /\ pages_running[0] # {}
    /\ f_pc' = "request"
    /\ f_page' = Min(pages_running[0])
    /\ f_attempt' = 0
    /\ cookies_dict' = page_cookies
    /\ f_trace' = << >>
    /\ f_result' = NoResult
    /\ UNCHANGED <<cfgvars, aggvars, mainvars, workvars, poolvars, ghostvars, archive,
                   current_cookies, last_cookie_reload_time, validated, reloaded,
                   reload_fails, page_cookies, tracevars, cidrvars, timevars, cmvars>>

\* line 428: for attempt in range(max_retries) has a next value
in_rangeUnbounded(att) == TRUE
in_range(att) == att < fetch_max_retries

\* `continue`, or the end of an iteration: the next attempt of
\* range(max_retries), or line 500 when there is none
Continue(events) ==
    /\ f_trace' = f_trace \o events
    /\ f_attempt' = f_attempt + 1
    /\ IF in_range(f_attempt + 1)
       THEN /\ f_pc' = "request"
            /\ UNCHANGED f_result
       ELSE /\ f_pc' = "returned"
            /\ f_result' = Failure("exhausted", GoodReply)

Return(events, result) ==
    /\ f_trace' = f_trace \o events
    /\ f_pc' = "returned"
    /\ f_result' = result
    /\ UNCHANGED f_attempt

\* lines 429-498: one iteration of the retry loop
FetchRequest ==
    /\ f_pc = "request"
    /\ \E reply \in Replies :
          LET req == RequestEv(f_page, cookies_dict)
          IN  IF auth_failure(reply)
              THEN \E loaded \in Loadable, vreply \in ValidateReplies :
                      LET new == reload_cookies(loaded, vreply)
                          ev == ReloadEv(loaded, loaded # None /\ validate_session(vreply))
                      IN  /\ new # None => last_cookie_reload_time < MaxReloads
                          /\ ReloadGlobals(loaded, vreply)
                          /\ IF new # None
                             THEN /\ cookies_dict' = new
                                  /\ Continue(<<req, ev>>)
                             ELSE /\ UNCHANGED cookies_dict
                                  /\ Return(<<req, ev>>, Failure("reload_failed", reply))
              ELSE /\ UNCHANGED <<current_cookies, last_cookie_reload_time, validated,
                                  reloaded, reload_fails, cookies_dict>>
                   /\ IF reply.kind = "connection"
                      THEN IF retry_transport(f_attempt)
                           THEN Continue(<<req, SleepEv>>)
                           ELSE Return(<<req>>, Failure("transport", reply))
                      ELSE IF reply.kind = "exception" \/ reply.status # 200
                      THEN Return(<<req>>, Failure("error", reply))
                      ELSE IF ~reply.json
                      THEN Return(<<req>>, Failure("bad_json", reply))
                      ELSE Return(<<req>>, Success(reply))
    /\ UNCHANGED <<cfgvars, aggvars, mainvars, workvars, poolvars, ghostvars, archive,
                   page_cookies, f_page, tracevars, cidrvars, timevars, cmvars>>

\* lines 652-703: scrape_page turns what the fetch returned into its result
FetchReturn ==
    /\ f_pc = "returned"
    /\ f_pc' = "idle"
    /\ pages_running' = [pages_running EXCEPT ![0] = @ \ {f_page}]
    /\ page_results' = [page_results EXCEPT ![0] = @ \cup {scrape_page(f_page, f_result)}]
    /\ UNCHANGED <<cfgvars, aggvars, mainvars, workvars, pages_queued, ghostvars, archive,
                   current_cookies, last_cookie_reload_time, validated, reloaded,
                   reload_fails, page_cookies, f_page, f_attempt, cookies_dict, f_result,
                   f_trace, tracevars, cidrvars, timevars, cmvars>>

InitFetch ==
    /\ resources = <<1, 2>>
    /\ search_terms = << >>
    /\ worker_count = 1
    /\ thread_count = 1
    /\ worker_tasks = distribute_resources_to_workers(resources, search_terms, worker_count)
    /\ dist_called = TRUE
    /\ mode = "fetch"
    /\ file = << >>
    /\ init_len = 0
    /\ mpc = "run"
    /\ AggInit
    /\ SessStarted
    /\ FetchIdle
    /\ TraceInit
    /\ TimersInit
    /\ CookieManagerInit
    /\ CidrOff
    /\ wfl = [w \in AllWorkers |-> "none"]
    /\ ti = [w \in AllWorkers |-> 1]
    /\ attempt = [w \in AllWorkers |-> 0]
    /\ first_page_data = [w \in AllWorkers |-> IF w = 0 THEN Data(FetchBody) ELSE NoData]
    /\ total_pages = [w \in AllWorkers |-> IF w = 0 THEN 1 + MaxFetchCalls ELSE 0]
    /\ batch = [w \in AllWorkers |-> << >>]
    /\ pages_queued = [w \in AllWorkers |-> IF w = 0 THEN 2..(1 + MaxFetchCalls) ELSE {}]
    /\ pages_running = [w \in AllWorkers |-> {}]
    /\ page_results = [w \in AllWorkers |-> {}]
    /\ worker_domains = [w \in AllWorkers |-> {}]
    /\ successful_tasks = [w \in AllWorkers |-> 0]
    /\ failed_tasks = [w \in AllWorkers |-> 0]
    /\ requested = [w \in AllWorkers |-> IF w = 0 THEN {1} ELSE {}]
    /\ archive = << >>
    /\ wpc = [w \in AllWorkers |-> IF w = 0 THEN "collect" ELSE "idle"]
    /\ disc_script = [w \in AllWorkers |-> << >>]
    /\ attempted = [w \in AllWorkers |-> IF w = 0 THEN <<1>> ELSE << >>]

NextFetch ==
    \/ PageStart(0) \/ FetchBegin \/ FetchRequest \/ FetchReturn
    \/ Collect(0) \/ AbsorbAcquire(0) \/ AbsorbUpdate(0) \/ TaskDone(0)

SpecFetch == InitFetch /\ [][NextFetch]_vars



(***************************************************************************)
(* The session step of get_first_page_with_retry in full: one call for     *)
(* page 1, entered with any credential the worker may hold, where every    *)
(* validation request and every reload may meet any outcome.  f_trace      *)
(* holds what the current attempt has done.  What the page-1 fetch hands   *)
(* back and what is made of it is DiscAttempt's; here it is back or not.   *)
(***************************************************************************)
ValidateEv(cred, ok) ==
    [ev |-> "validate", page |-> 0, cred |-> cred, ok |-> ok,
     cur |-> None, after_reload |-> FALSE, fails |-> 0]

\* lines 604-611: the credential the attempt goes on with; None: `continue`
attempt_cookiesStale(held, valid, new) == held
attempt_cookies(held, valid, new) == IF valid THEN held ELSE new

\* the next value of "for attempt in range(max_retries)", or line 640-642
NextAttempt ==
    /\ attempt' = [attempt EXCEPT ![0] = @ + 1]
    /\ f_pc' = IF attempt[0] + 1 < first_page_max_retries THEN "session" ELSE "returned"

\* lines 601-613: validate_session(cookies), and reload_cookies() when it fails
DiscSession ==
    /\ f_pc = "session"
    /\ \E vreply \in ValidateReplies, loaded \in Loadable, rreply \in ValidateReplies :
          LET valid == validate_session(vreply)
              new == reload_cookies(loaded, rreply)
              use == attempt_cookies(cookies, valid, new)
          IN  /\ IF valid
                 THEN /\ validated' = validated \cup {cookies}
                      /\ f_trace' = <<ValidateEv(cookies, TRUE)>>
                      /\ UNCHANGED <<current_cookies, last_cookie_reload_time, reloaded,
                                     reload_fails>>
                 ELSE /\ new # None => last_cookie_reload_time < MaxReloads
                      /\ ReloadGlobals(loaded, rreply)
                      /\ f_trace' = <<ValidateEv(cookies, FALSE), ReloadEv(loaded, new # None)>>
              /\ IF use # None
                 THEN /\ cookies' = use
                      /\ f_pc' = "fetch"
                      /\ UNCHANGED attempt
                 ELSE /\ NextAttempt
                      /\ UNCHANGED cookies
    /\ UNCHANGED <<cfgvars, aggvars, mainvars, wpc, wfl, ti, first_page_data, total_pages,
                   batch, worker_domains, successful_tasks, failed_tasks, disc_script,
                   poolvars, ghostvars, archive, page_cookies, f_page, f_attempt,
                   cookies_dict, f_result, scraped, slept, cidrvars, timevars, cmvars>>

\* lines 616-638: get_securitytrails_data(resource_type, resource_value, 1,
\* cookies, search_term); with usable data the call returns, else the next
\* attempt follows
DiscFetch ==
    /\ f_pc = "fetch"
    /\ f_trace' = Append(f_trace, RequestEv(1, cookies))
    /\ \E back \in BOOLEAN :
          IF back THEN f_pc' = "returned" /\ UNCHANGED attempt
          ELSE NextAttempt
    /\ UNCHANGED <<cfgvars, aggvars, mainvars, wpc, wfl, ti, first_page_data, total_pages,
                   batch, worker_domains, successful_tasks, failed_tasks, disc_script,
                   poolvars, ghostvars, archive, current_cookies, last_cookie_reload_time,
                   validated, reloaded, reload_fails, page_cookies, f_page, f_attempt,
                   cookies_dict, f_result, tracevars, cidrvars, timevars, cmvars>>

InitSession ==
    /\ resources = <<1>>
    /\ search_terms = << >>
    /\ worker_count = 1
    /\ thread_count = 1
    /\ worker_tasks = distribute_resources_to_workers(resources, search_terms, worker_count)
    /\ dist_called = TRUE
    /\ mode = "session"
    /\ file = << >>
    /\ init_len = 0
    /\ mpc = "run"
    /\ AggInit
    /\ SessStarted
    /\ f_pc = "session"
    /\ f_page = 1
    /\ f_attempt = 0
    /\ cookies_dict = None
    /\ f_result = NoResult
    /\ f_trace = << >>
    /\ NoTrace
    /\ cookies \in Creds
    /\ TimersInit
    /\ CookieManagerInit
    /\ CidrOff
    /\ WorkerLocals
    /\ wpc = [w \in AllWorkers |-> IF w = 0 THEN "discover" ELSE "idle"]
    /\ disc_script = [w \in AllWorkers |-> << >>]
    /\ attempted = [w \in AllWorkers |-> IF w = 0 THEN <<1>> ELSE << >>]

NextSession == DiscSession \/ DiscFetch

SpecSession == InitSession /\ [][NextSession]_vars

(***************************************************************************)
(* The clock, the three maintenance timers and the identity.  Time passes  *)
(* in steps of TickSeconds up to MaxTime.  A worker makes its maintenance  *)
(* check before each task; any thread that builds the headers of a request *)
(* reads the identity through get_current_user_agent.                      *)
(***************************************************************************)
UserAgents == 1..NumAgents

Tick ==
    /\ now + TickSeconds <= MaxTime
    /\ now' = now + TickSeconds
    /\ UNCHANGED <<cfgvars, aggvars, mainvars, workvars, poolvars, ghostvars, archive,
                   sessvars, tracevars, cidrvars, last_memory_clear_time,
                   last_user_agent_change_time, current_user_agent, cmvars>>

\* get_current_user_agent, lines 89-103; new is what get_random_user_agent drew
get_current_user_agent(new) ==
    IF current_user_agent = None
       \/ now - last_user_agent_change_time >= user_agent_change_interval
    THEN IF new # current_user_agent
         THEN /\ current_user_agent' = new
              /\ last_user_agent_change_time' = now
         ELSE UNCHANGED <<current_user_agent, last_user_agent_change_time>>
    ELSE UNCHANGED <<current_user_agent, last_user_agent_change_time>>

\* check_performance_optimization, lines 172-197
check_performance_optimization ==
    [needs_cookie_reload |-> now - last_cookie_reload_time >= cookie_reload_interval,
     needs_memory_clear |-> now - last_memory_clear_time >= memory_clear_interval,
     needs_user_agent_change |->
         now - last_user_agent_change_time >= user_agent_change_interval]

\* worker_process, lines 725-743: the check and what it sets off.
\* reload_cookies validates the cookies it loaded, and validate_session builds
\* its headers with get_current_user_agent (line 287); for
\* needs_user_agent_change a message is printed; clear_memory (lines 160-170)
\* collects garbage and restarts its timer.
Maintenance ==
    /\ \E loaded \in Loadable, vreply \in ValidateReplies, new \in UserAgents :
          LET due == check_performance_optimization
          IN  /\ IF due.needs_cookie_reload
                 THEN /\ ReloadGlobalsAt(loaded, vreply, now)
                      /\ IF loaded # None THEN get_current_user_agent(new)
                         ELSE UNCHANGED <<current_user_agent, last_user_agent_change_time>>
                 ELSE UNCHANGED <<current_cookies, last_cookie_reload_time, validated,
                                  reloaded, reload_fails, current_user_agent,
                                  last_user_agent_change_time>>
              /\ last_memory_clear_time' =
                     IF due.needs_memory_clear THEN now ELSE last_memory_clear_time
    /\ UNCHANGED <<cfgvars, aggvars, mainvars, workvars, poolvars, ghostvars, archive,
                   page_cookies, f_pc, f_page, f_attempt, cookies_dict, f_result, f_trace,
                   tracevars, cidrvars, now, cmvars>>

\* get_securitytrails_data, lines 405-418: the headers of a fetch whose
\* requests meet no authorization failure
BuildHeaders ==
    /\ \E new \in UserAgents : get_current_user_agent(new)
    /\ UNCHANGED <<cfgvars, aggvars, mainvars, workvars, poolvars, ghostvars, archive,
                   sessvars, tracevars, cidrvars, now, last_memory_clear_time, cmvars>>

InitTimers ==
    /\ resources = <<1>>
    /\ search_terms = << >>
    /\ worker_count = 1
    /\ thread_count = 1
    /\ worker_tasks = distribute_resources_to_workers(resources, search_terms, worker_count)
    /\ dist_called = TRUE
    /\ mode = "timers"
    /\ file = << >>
    /\ init_len = 0
    /\ mpc = "run"
    /\ AggInit
    /\ SessStarted
    /\ FetchIdle
    /\ TraceInit
    /\ TimersInit
    /\ CookieManagerInit
    /\ CidrOff
    /\ WorkerLocals
    /\ wpc = [w \in AllWorkers |-> IF w = 0 THEN "start" ELSE "idle"]
    /\ disc_script = [w \in AllWorkers |-> << >>]
    /\ attempted = [w \in AllWorkers |-> << >>]

NextTimers == Tick \/ Maintenance \/ BuildHeaders

SpecTimers == InitTimers /\ [][NextTimers]_vars

(***************************************************************************)
(* The failure archive.  A resource value is a string of letters and       *)
(* slashes; a failed discovery attempt of a task (resource value, search   *)
(* term) of a worker calls save_failed_response with attempt + 1 and the   *)
(* error type.  A task belongs to one worker, its attempts are numbered    *)
(* upwards, and a worker sleeps at least two seconds after an archived     *)
(* attempt (lines 635-638), so that it archives once in a second; the      *)
(* workers run in parallel.  The clock is read in whole seconds.           *)
(***************************************************************************)
ResourceValues == {<<"a">>, <<"a", "/">>, <<"b">>}
ErrorTypes == {"no_data_received", "total_pages_detection_failed"}
Terms == 1..MaxTerms

\* line 209: c.isalnum() or c in ('-', '.', '_')
kept(c) == c \in {"a", "b"}
safe_resource(resource_value) == SelectSeq(resource_value, kept)

\* lines 209-218: os.path.join(failed_requests_dir, safe_resource,
\* f"retry_{attempt}_{error_type}_{timestamp}.json"), timestamp to the second
filepath(resource_value, att, error_type, second) ==
    <<safe_resource(resource_value), att, error_type, second>>

\* lines 626 and 633: save_failed_response(resource_type, resource_value,
\* attempt + 1, ..., error_type), which opens filepath with mode 'w'
save_failed_response ==
    /\ Len(archive) < MaxArchived
    /\ \E w \in AllWorkers, v \in ResourceValues, term \in Terms,
          att \in 1..MaxArchiveAttempts, et \in ErrorTypes :
          /\ \A i \in DOMAIN archive :
                LET e == archive[i]
                IN  /\ (e.resource = v /\ e.term = term) =>
                          e.worker = w /\ e.attempt < att
                    /\ e.worker = w => e.second < now
          /\ archive' = Append(archive,
                 [worker |-> w, resource |-> v, term |-> term, attempt |-> att,
                  error_type |-> et, second |-> now,
                  path |-> filepath(v, att, et, now)])
    /\ UNCHANGED <<cfgvars, aggvars, mainvars, workvars, poolvars, ghostvars, sessvars,
                   tracevars, cidrvars, timevars, cmvars>>

InitArchive ==
    /\ resources = <<1, 2>>
    /\ search_terms = <<1, 2>>
    /\ worker_count = 2
    /\ thread_count = 1
    /\ worker_tasks = distribute_resources_to_workers(resources, search_terms, worker_count)
    /\ dist_called = TRUE
    /\ mode = "archive"
    /\ file = << >>
    /\ init_len = 0
    /\ mpc = "run"
    /\ AggInit
    /\ SessStarted
    /\ FetchIdle
    /\ TraceInit
    /\ TimersInit
    /\ CookieManagerInit
    /\ CidrOff
    /\ WorkerLocals
    /\ wpc = [w \in AllWorkers |-> "discover"]
    /\ disc_script = [w \in AllWorkers |-> << >>]
    /\ attempted = [w \in AllWorkers |-> <<1>>]

NextArchive == Tick \/ save_failed_response

SpecArchive == InitArchive /\ [][NextArchive]_vars

(***************************************************************************)
(* The CookieManager of sxip2.py.  The block threads call request_block,   *)
(* which asks the manager for the cookies before each post; SIGCONT makes  *)
(* the main thread reload them.  What a load finds in cookies.json is a    *)
(* credential, or None when the file cannot be opened, parsed or used.     *)
(***************************************************************************)
\* line 48: timedelta(minutes=COOKIE_REFRESH_MINUTES), in seconds
reload_interval == COOKIE_REFRESH_MINUTES * 60

\* CookieManager.load, lines 50-67
load(loaded) ==
    IF loaded # None
    THEN [cookies |-> loaded, last_loaded |-> now]
    ELSE [cookie_manager EXCEPT !.cookies = None]

\* CookieManager.get, lines 69-79: the manager after the call
get(loaded) ==
    IF \/ cookie_manager.cookies = None
       \/ cookie_manager.last_loaded = NoTime
       \/ now - cookie_manager.last_loaded > reload_interval
    THEN load(loaded)
    ELSE cookie_manager

\* request_block, lines 127-130: one attempt, up to its session.post
request_block ==
    /\ \E loaded \in Loadable :
          /\ cookie_manager' = get(loaded)
          /\ block_cookies' = block_cookies \cup {cookie_manager'.cookies}
    /\ UNCHANGED <<cfgvars, aggvars, mainvars, workvars, poolvars, ghostvars, archive,
                   sessvars, tracevars, cidrvars, timevars>>

\* handle_resume, lines 90-91: cookie_manager.force_reload() (lines 81-83)
handle_resume ==
    /\ \E loaded \in Loadable : cookie_manager' = load(loaded)
    /\ UNCHANGED <<cfgvars, aggvars, mainvars, workvars, poolvars, ghostvars, archive,
                   sessvars, tracevars, cidrvars, timevars, block_cookies>>

InitCookies ==
    /\ resources = << >>
    /\ search_terms = << >>
    /\ worker_count = 1
    /\ thread_count = 1
    /\ worker_tasks = << >>
    /\ dist_called = FALSE
    /\ mode = "cookies"
    /\ file = << >>
    /\ init_len = 0
    /\ mpc = "off"
    /\ AggInit
    /\ SessInit
    /\ FetchIdle
    /\ TraceInit
    /\ TimersInit
    /\ CookieManagerInit
    /\ CidrOff
    /\ WorkerLocals
    /\ wpc = [w \in AllWorkers |-> "idle"]
    /\ disc_script = [w \in AllWorkers |-> << >>]
    /\ attempted = [w \in AllWorkers |-> << >>]

NextCookies == Tick \/ request_block \/ handle_resume

SpecCookies == InitCookies /\ [][NextCookies]_vars

(***************************************************************************)
(* Properties.                                                             *)
(***************************************************************************)
InitialLines == SubSeq(file, 1, init_len)
SomeFlushWrites == mfl = "write" \/ hfl = "write" \/ \E w \in AllWorkers : wfl[w] = "write"
\* a step that ends the critical section of save_current_results
FlushStep == SomeFlushWrites /\ results_lock # "free" /\ results_lock' = "free"
WorkersDone == Started # {} /\ \A w \in Started : wpc[w] \in {"returned", "crashed"}

\* C1: when the process has terminated after a SIGINT whose flush met no
\* write error, every record that was in current_domains when the signal
\* arrived is in saved_domains and on a line of the output file.
C1_InterruptFlushes ==
    (mpc = "exited" /\ interrupted /\ ~handler_write_failed)
        => (sigsnap \subseteq saved_domains /\ sigsnap \subseteq LineHosts(file))

C1_Witness ==
    /\ mpc = "exited" /\ interrupted /\ ~handler_write_failed
    /\ sigsnap # {} /\ init_len = 0 /\ write_errors = 0

\* C2: the signal handler's flush always obtains results_lock: the handler
\* never waits for a lock held by the main thread it has interrupted, so the
\* process can go on to terminate.
C2_HandlerObtainsLock == ~(hfl = "lock" /\ results_lock = "main")

\* C3 (as stated): saved_domains is a subset of current_domains in every
\* reachable state.
C3_PersistedWithinCollected == saved_domains \subseteq current_domains

\* C3 (amended): every member of saved_domains is in current_domains or is a
\* stripped, non-empty line the output file had at start-up.
C3_PersistedWithinCollectedOrStartup ==
    saved_domains \subseteq (current_domains \cup LineHosts(InitialLines))

C3_Witness ==
    /\ init_len > 0 /\ LineHosts(InitialLines) \subseteq saved_domains
    /\ saved_domains \ LineHosts(InitialLines) # {}
    /\ Len(file) > init_len

\* C4: when the output file had lines at start-up, no line appended by a
\* flush equals a line that is already in the file.
C4_NoLineAppendedTwice ==
    init_len > 0 =>
        \A i \in (init_len + 1)..Len(file) : \A j \in 1..(i - 1) : file[i] # file[j]

\* C5: a flush made when no batch was absorbed since the last successful
\* flush appends no line and leaves saved_domains as it was.
C5_CleanFlushIsNoOp ==
    [][(FlushStep /\ ~dirty) => (file' = file /\ saved_domains' = saved_domains)]_vars

C5_Witness == SomeFlushWrites /\ ~dirty /\ current_domains # {} /\ Len(file) > init_len

\* C6: once every worker is back, whatever the interleaving of their absorb
\* steps, current_domains is the union of the batches handed to the
\* aggregator.
C6_CollectedIsUnionOfBatches == WorkersDone => current_domains = absorbed

C6_Witness ==
    /\ WorkersDone /\ worker_count = 2
    /\ \A w \in AllWorkers : wpc[w] = "returned" /\ worker_domains[w] # {}
    /\ Cardinality(current_domains) = NumHosts

\* C7: the slices are the round-robin deal of the resource-major list of
\* (resource, search term) pairs, or of (resource, None) when there is no
\* search term: the k-th element of slice j is item (k-1)*W + (j-1), so that
\* item i is in slice i mod W, every item is in exactly one slice once, and
\* each slice keeps the order of the list.  For an empty resource list the
\* result is the empty list.
NumItems == Len(resources) * (IF search_terms = << >> THEN 1 ELSE Len(search_terms))
ItemAt(k) ==
    IF search_terms = << >> THEN <<resources[k + 1], None>>
    ELSE <<resources[(k \div Len(search_terms)) + 1],
           search_terms[(k % Len(search_terms)) + 1]>>
SliceSize(j) == Cardinality({k \in 0..(NumItems - 1) : k % worker_count = j - 1})
C7_RoundRobinSlices ==
    (mpc = "dist" /\ dist_called) =>
        IF resources = << >> THEN worker_tasks = << >>
        ELSE /\ Len(worker_tasks) = worker_count
             /\ \A j \in 1..worker_count :
                  /\ Len(worker_tasks[j]) = SliceSize(j)
                  /\ \A k \in 1..SliceSize(j) :
                       worker_tasks[j][k] = ItemAt((k - 1) * worker_count + (j - 1))

C7_Witness ==
    /\ mpc = "dist" /\ dist_called
    /\ Len(resources) = MaxDistResources /\ Len(search_terms) = MaxTerms
    /\ worker_count = 2 /\ Len(worker_tasks[2]) > 1

\* C8: a worker that is back, by return or by exception, has attempted every
\* task of its slice, in order.
C8_EveryTaskAttempted ==
    \A w \in Started :
        wpc[w] \in {"returned", "crashed"}
            => attempted[w] = [i \in 1..Len(Tasks(w)) |-> i]

\* C9: when discovery hands back a body together with total_pages 100, a
\* branch of the body carries limit_reached or at least one record; when it
\* hands back no body, all first_page_max_retries attempts were made and the
\* task is counted as failed.
Evidence(b) ==
    b.data /\ (b.limit_reached \/ (b.records.kind = "list" /\ Len(b.records.items) > 0))
DiscoveryBack(w) == wpc[w] \notin {"discover", "idle", "crashed"}
C10_Scenario ==
    \A w \in AllWorkers :
        /\ requested[w] \subseteq 1..ScenarioPages
        /\ Len(archive) <= 1
        /\ (attempt[w] > 0) =>
              archive = << [resource |-> 1, attempt |-> 1,
                            error_type |-> "total_pages_detection_failed"] >>
        /\ (wpc[w] \notin {"idle", "start", "validate", "discover", "abort", "aborted"}) =>
              /\ attempt[w] = 1 /\ Len(archive) = 1
              /\ first_page_data[w] = Data(GoodFew)
              /\ total_pages[w] = ScenarioPages
        /\ (successful_tasks[w] = 1) => requested[w] = 1..ScenarioPages

C10_Witness ==
    /\ mode = "scenario" /\ successful_tasks[0] = 1 /\ wpc[0] = "returned"
    /\ requested[0] = 1..ScenarioPages /\ Len(archive) = 1


(***************************************************************************)
(* Sessions and retries.                                                   *)
(***************************************************************************)
Events(kind) == {i \in DOMAIN f_trace : f_trace[i].ev = kind}
Returned == f_pc = "returned"

\* C11: a body whose apexDomainData or serverResponse branch carries status 401
\* or error session_expired is treated by the fetch as an expired session, so
\* the body a fetch hands back as data carries no such marker in either branch.
C11_NoExpiredBodyReturned ==
    f_result.got =>
        f_result.reply.apex_mark = "none" /\ f_result.reply.server_mark = "none"

\* C12: recoveries from an authorization failure do not use up the transport
\* retry budget, so a fetch that gives up on a transport failure has tolerated
\* max_retries - 1 transport failures before it.
C12_TransportBudgetKept ==
    (Returned /\ f_result.why = "transport") =>
        Cardinality(Events("sleep")) = fetch_max_retries - 1

\* C13: a fetch whose every request met a connection error or read timeout has
\* issued exactly max_retries requests for its page, with one delay between
\* consecutive requests and none after the last, and has returned a failure; it
\* never ends in another way.
AllTransport == Events("reload") = {} /\ f_result.why \in {"transport", "exhausted"}
C13_TransportRetries ==
    (Returned /\ AllTransport) =>
        /\ f_result.why = "transport" /\ ~f_result.got
        /\ Len(f_trace) = 2 * fetch_max_retries - 1
        /\ \A i \in DOMAIN f_trace :
              IF i % 2 = 1
              THEN f_trace[i].ev = "request" /\ f_trace[i].page = f_page
              ELSE f_trace[i].ev = "sleep"
C13_Witness ==
    /\ Returned /\ AllTransport
    /\ Cardinality(Events("request")) = fetch_max_retries
    /\ f_page = 1 + MaxFetchCalls

\* C14: over a call of get_first_page_with_retry, as many responses have been
\* archived as attempts have failed, the attempts whose session validation and
\* reload both failed included.
C14_FailedAttemptsArchived ==
    (mode = "free" /\ wpc[0] \in {"discover", "start"}) => Len(archive) = attempt[0]

\* C15: reload_cookies installs a credential only once it has passed
\* validation; a reload whose load or validation failed leaves current_cookies
\* and last_cookie_reload_time as they were and hands back a failure.
LastEvent == f_trace'[Len(f_trace')]
ReloadStep == Len(f_trace') > Len(f_trace) /\ LastEvent.ev = "reload"
C15_Step ==
    ReloadStep =>
        IF LastEvent.ok
        THEN /\ current_cookies' = LastEvent.cred
             /\ current_cookies' \in validated'
             /\ last_cookie_reload_time' = last_cookie_reload_time + 1
        ELSE /\ current_cookies' = current_cookies
             /\ last_cookie_reload_time' = last_cookie_reload_time
             /\ f_pc' = "returned" /\ ~f_result'.got /\ f_result'.why = "reload_failed"
C15_ReloadInstallsValidatedOnly == [][C15_Step]_vars
C15_Witness ==
    /\ Returned /\ f_result.why = "reload_failed"
    /\ f_trace[Len(f_trace)].cred \notin {None, current_cookies}
    /\ reloaded

\* C16: once a reload has succeeded, every request started afterwards is sent
\* with the credential that is then the current session.
C16_RequestsUseCurrentSession ==
    \A i \in Events("request") :
        f_trace[i].after_reload => f_trace[i].cred = f_trace[i].cur

\* C17: after an authorization failure followed by a successful reload the
\* fetch requests the same page again with the reloaded credential.
C17_RetriedWithNewCredential ==
    Returned =>
        \A i \in Events("reload") :
            f_trace[i].ok =>
                /\ i < Len(f_trace)
                /\ f_trace[i + 1].ev = "request"
                /\ f_trace[i + 1].page = f_page
                /\ f_trace[i + 1].cred = f_trace[i].cred

\* C18: once reloading the session has failed twice in a row during a task,
\* no further request is issued for the task and the task is not counted as
\* successful.
C18_TaskAbandoned ==
    /\ \A i \in Events("request") : f_trace[i].fails < 2
    /\ (mode = "fetch" /\ reload_fails = 2) => successful_tasks[0] = 0

\* C19: no worker is started and no page is requested unless the credential
\* was loaded from the credential file and has passed validation.
Scheduled == dist_called \/ Started # {} \/ \E w \in AllWorkers : requested[w] # {}
Flushing ==
    (IF mfl = "write" THEN 1 ELSE 0) + (IF hfl = "write" THEN 1 ELSE 0)
    + Cardinality({w \in AllWorkers : wfl[w] = "write"})
Updating == Cardinality({w \in AllWorkers : wpc[w] \in {"upd1", "upd2"}})
C20_Mutex ==
    /\ Flushing + Updating <= 1
    /\ Flushing + Updating = 1 => results_lock # "free"
C20_WriteStep ==
    /\ file' # file =>
          /\ Flushing = 1 /\ results_lock # "free"
          /\ Len(file') > Len(file) /\ SubSeq(file', 1, Len(file)) = file
          /\ LineHosts(SubSeq(file', Len(file) + 1, Len(file'))) \subseteq new_domains
          /\ saved_domains' \in {saved_domains, saved_domains \cup new_domains}
    /\ (saved_domains' # saved_domains /\ mpc # "boot") =>
          /\ file' # file
          /\ saved_domains' = saved_domains \cup new_domains
C21_EmptyPageIsSuccess ==
    \A w \in AllWorkers : \A r \in page_results[w] : (r.got /\ ~r.raised) => r.success

\* C22: a fetch that met a body that does not parse has returned a failure
\* right after that request: the request is the last event of the call, no
\* delay and no reload follow it, and it was not retried.
Malformed(reply) == reply.kind = "http" /\ reply.status = 200 /\ ~reply.json
C22_MalformedFailsAtOnce ==
    (Returned /\ Malformed(f_result.reply)) =>
        /\ ~f_result.got /\ f_result.why = "bad_json"
        /\ f_trace[Len(f_trace)].ev = "request"
        /\ Cardinality(Events("request")) = f_attempt + 1
C22_Witness ==
    /\ Returned /\ Malformed(f_result.reply)
    /\ Len(f_trace) = 1 /\ f_attempt = 0 /\ ~reloaded

\* C23: a flush whose write fails leaves current_domains and saved_domains as
\* they were and ends like any other flush, its caller going on; a flush whose
\* write succeeds appends exactly the records that are collected and not yet
\* persisted, and persisted then holds all of collected.
Appended == SubSeq(file', Len(file) + 1, Len(file'))
C23_Step ==
    FlushStep =>
        /\ current_domains' = current_domains
        /\ \A w \in AllWorkers : wpc'[w] \notin {"raise", "crashed"} \/ wpc'[w] = wpc[w]
        /\ IF write_errors' # write_errors
           THEN saved_domains' = saved_domains
           ELSE /\ LineHosts(Appended) = new_domains
                /\ Len(Appended) = Cardinality(new_domains)
                /\ saved_domains' = saved_domains \cup new_domains
                /\ current_domains \subseteq saved_domains'
C23_FailedWriteRetried == [][C23_Step]_vars
C23_Witness ==
    /\ write_errors = 1 /\ ~dirty /\ mpc = "exited"
    /\ current_domains # {} /\ current_domains \subseteq saved_domains

\* C24: when a run in which every started worker returned has ended and no
\* write failed, every record of current_domains is on a line of the output
\* file.
AllReturned == Started # {} /\ \A w \in Started : wpc[w] = "returned"
C24_ExitPersistsCollected ==
    (mpc = "exited" /\ AllReturned /\ write_errors = 0) =>
        current_domains \subseteq LineHosts(file)
C24_Witness ==
    /\ mpc = "exited" /\ AllReturned /\ write_errors = 0 /\ ~interrupted
    /\ current_domains = Hosts /\ init_len = 0

\* C25: in a run that started without an output file, after start-up the
\* lines of the file are exactly saved_domains and no two lines of the file
\* are equal, also after a flush whose write failed part-way.
C25_FileIsPersisted ==
    (mpc # "boot" /\ init_len = 0) =>
        /\ LineHosts(file) = saved_domains
        /\ \A i, j \in DOMAIN file : file[i] = file[j] => i = j

\* C26: in the healthy scenario the discovery of every domain accepts its
\* first attempt and nothing is archived; a finished task has requested the
\* pages 1..HealthyTotal and no other, each page after the first by one
\* scrape_page call; and when the run has ended without an interrupt and
\* without a failed write, every domain was processed and every hostname a
\* fetch handed back is on exactly one line of the output file.
LinesOf(h) == {i \in DOMAIN file : strip(file[i]).name = h}
C26_HealthyRun ==
    mode = "healthy" =>
        /\ archive = << >> /\ attempt[0] = 0 /\ failed_tasks[0] = 0
        /\ requested[0] \subseteq 1..HealthyTotal
        /\ (wpc[0] \in {"start", "returned"} /\ successful_tasks[0] > 0) =>
              /\ requested[0] = 1..HealthyTotal
              /\ scraped[0] = [i \in 1..(HealthyTotal - 1) |-> i + 1]
        /\ (mpc = "exited" /\ ~interrupted /\ write_errors = 0) =>
              /\ successful_tasks[0] = HealthyDomains
              /\ LineHosts(file) = absorbed
              /\ \A h \in absorbed : Cardinality(LinesOf(h)) = 1
C26_Witness ==
    /\ mode = "healthy" /\ mpc = "exited" /\ ~interrupted /\ write_errors = 0
    /\ absorbed = Hosts /\ Len(file) = NumHosts /\ ticks > 0

NoRepeat(seq) == \A i, j \in DOMAIN seq : seq[i] = seq[j] => i = j
C28_PagesOncePoolBounded ==
    mode = "pool" =>
        /\ Cardinality(pages_running[0]) <= thread_count
        /\ NoRepeat(scraped[0])
        /\ IF first_page_data[0].got
           THEN /\ SeqSet(scraped[0]) \subseteq 2..total_pages[0]
                /\ requested[0] \subseteq 1..total_pages[0]
           ELSE scraped[0] = << >> /\ requested[0] \subseteq {1}
        /\ successful_tasks[0] = 1 =>
              scraped[0] = [i \in 1..(total_pages[0] - 1) |-> i + 1]
C28_Witness ==
    /\ mode = "pool" /\ thread_count = MaxPoolThreads
    /\ Cardinality(pages_running[0]) = MaxPoolThreads
    /\ Len(scraped[0]) = MaxPoolPages - 1

\* C29: a worker that is between tasks, or at the session check, the
\* discovery or the first page of a task, has no page fetch of an earlier task
\* queued, running or waiting to be collected.
C29_TasksInSequence ==
    \A w \in AllWorkers :
        wpc[w] \in {"start", "validate", "discover", "lock1", "upd1", "returned"} =>
            pages_queued[w] = {} /\ pages_running[w] = {} /\ page_results[w] = {}
C29_Witness ==
    /\ worker_count = 2 /\ pages_running[0] # {} /\ pages_running[1] # {}

\* C27: when a CIDR scanner is interrupted before the end of its run, the
\* hostnames of the blocks it has processed are in its output file.
C27_BlocksPersistedOnInterrupt ==
    scan_pc = "interrupted" => all_domains \subseteq LineHosts(out_file)

\* C34: when worker_process has returned, its successful_tasks and
\* failed_tasks add up to the number of tasks of its slice.
C34_CountersSumToSlice ==
    \A w \in AllWorkers :
        wpc[w] = "returned" => successful_tasks[w] + failed_tasks[w] = Len(Tasks(w))

\* C35: an absorb that ends while the save interval has passed and
\* current_domains holds records that are not in saved_domains is followed by
\* a flush, whichever batch was absorbed.
C35_FlushAtEveryAbsorb ==
    [][\A w \in AllWorkers :
          (/\ wpc[w] \in {"upd1", "upd2"} /\ wpc'[w] \notin {wpc[w], "abort", "aborted"}
           /\ save_due /\ new_domains' # {})
          => wpc'[w] = "save"]_vars

\* C36: once main() has reconciled saved_domains with the output file, no
\* step removes an element from current_domains or from saved_domains.
C36_SetsOnlyGrow ==
    [][mpc # "boot" =>
          /\ current_domains \subseteq current_domains'
          /\ saved_domains \subseteq saved_domains']_vars
C36_Witness ==
    /\ interrupted /\ write_errors > 0 /\ mpc = "exited"
    /\ saved_domains # {} /\ current_domains = Hosts /\ init_len > 0

\* C37: no exception leaves scrape_page: future.result() never raises in
\* worker_process, whatever the body of the page was.
C37_NoExceptionEscapes ==
    \A w \in AllWorkers : wpc[w] # "raise"

\* C38: a call of get_securitytrails_data issues at most max_retries page
\* requests, and while it goes on its loop variable is below max_retries.
C38_AtMostMaxRetriesRequests ==
    /\ Cardinality(Events("request")) <= fetch_max_retries
    /\ f_pc = "request" => f_attempt < fetch_max_retries
    /\ Cardinality(Events("request")) <= f_attempt + 1
C38_Witness ==
    /\ Returned /\ Cardinality(Events("request")) = fetch_max_retries
    /\ Events("reload") # {} /\ Events("sleep") # {}
    /\ \E i \in Events("reload") : ~f_trace[i].ok

\* C31: a page-1 fetch of the discovery is issued only right after the
\* credential it is sent with has passed validate_session in the same attempt,
\* directly or inside reload_cookies; an attempt in which the validation and
\* the reload failed issues no fetch.
C31_FetchOnlyOnValidSession ==
    mode = "session" =>
        /\ \A i \in Events("request") :
              /\ i > 1 /\ f_trace[i].cred # None
              /\ f_trace[i - 1].ev \in {"validate", "reload"}
              /\ f_trace[i - 1].ok /\ f_trace[i - 1].cred = f_trace[i].cred
              /\ f_trace[i].cred \in validated
        /\ (\E i \in Events("reload") : ~f_trace[i].ok) => Events("request") = {}
        /\ f_pc = "fetch" => f_trace[Len(f_trace)].ok /\ f_trace[Len(f_trace)].cred = cookies
C31_Witness ==
    /\ mode = "session" /\ attempt[0] > 1 /\ reload_fails = 0 /\ reloaded
    /\ Events("request") # {} /\ Events("reload") # {}
    /\ cookies # page_cookies

\* C32: building the request of a fetch that meets no authorization failure
\* leaves current_user_agent, last_user_agent_change_time, current_cookies and
\* last_cookie_reload_time as they were.
C32_FetchReadsOnly ==
    [][BuildHeaders => UNCHANGED <<current_user_agent, last_user_agent_change_time,
                                   current_cookies, last_cookie_reload_time>>]_vars

\* C33: at a maintenance check each of the three actions takes place exactly
\* when its own interval has elapsed: the session is reloaded and
\* last_cookie_reload_time restarted only then, the memory is cleared and
\* last_memory_clear_time restarted exactly then, and the identity is rotated
\* and last_user_agent_change_time restarted exactly then.
C33_ThreeIndependentTimers ==
    [][Maintenance =>
          LET due == check_performance_optimization
          IN  /\ ~due.needs_cookie_reload =>
                    UNCHANGED <<current_cookies, last_cookie_reload_time>>
              /\ last_memory_clear_time' =
                     IF due.needs_memory_clear THEN now ELSE last_memory_clear_time
              /\ IF due.needs_user_agent_change
                 THEN last_user_agent_change_time' = now
                 ELSE UNCHANGED <<current_user_agent, last_user_agent_change_time>>]_vars

\* C39: no two archived failed attempts were written to the same path.
C39_OneFilePerAttempt ==
    mode = "archive" =>
        \A i, j \in DOMAIN archive : archive[i].path = archive[j].path => i = j

\* C40: once a load of the CookieManager has succeeded, no step leaves the
\* manager without cookies, and no block request is posted without cookies.
C40_LoadedCookiesKept ==
    [][cookie_manager.last_loaded # NoTime =>
          /\ cookie_manager'.cookies # None
          /\ None \notin block_cookies' \ block_cookies]_vars

=============================================================================
